---- MODULE Spec2Model ----
(***************************************************************************)
(* Model of the spreadsheet engine of src/src/sheet.rs (with avl.rs,       *)
(* stack.rs and cell.rs).  A command line is a sequence of one-character   *)
(* strings; execute_command is one atomic step, as the program is          *)
(* single-threaded and runs every command to completion.                   *)
(***************************************************************************)
EXTENDS Integers, Sequences, FiniteSets, TLC

(* ------------------------------------------------------------------ *)
(* Bounds of the model: the grid given on the command line.            *)
(* ------------------------------------------------------------------ *)
R == 2
C == 4

Cells == (0 .. R - 1) \X (0 .. C - 1)

(* ------------------------------------------------------------------ *)
(* Characters and strings                                              *)
(* ------------------------------------------------------------------ *)
Letters == <<"A","B","C","D","E","F","G","H","I","J","K","L","M",
             "N","O","P","Q","R","S","T","U","V","W","X","Y","Z">>
Digits == <<"0","1","2","3","4","5","6","7","8","9">>
LowerLetters == {"a","b","c","d","e","f","g","h","i","j","k","l","m",
                 "n","o","p","q","r","s","t","u","v","w","x","y","z"}

is_ascii_uppercase(ch) == \E i \in 1 .. 26 : Letters[i] = ch
is_ascii_digit(ch) == \E i \in 1 .. 10 : Digits[i] = ch
is_ascii_alphabetic(ch) == is_ascii_uppercase(ch) \/ ch \in LowerLetters
is_whitespace(ch) == ch = " "

(* ch as usize - 'A' as usize + 1 *)
LetterNum(ch) == CHOOSE i \in 1 .. 26 : Letters[i] = ch
(* ch.to_digit(10) *)
to_digit(ch) == (CHOOSE i \in 1 .. 10 : Digits[i] = ch) - 1

None == <<>>
Some(x) == <<x>>
unwrap(o) == o[1]

(* i32::MIN and i32::MAX.  Cell values are i32. *)
I32_MAX == 2147483647
I32_MIN == -I32_MAX - 1

(* Whether the build carries overflow checks (rustc -C overflow-checks: *)
(* on in the dev profile, off in the release profile).  The sources     *)
(* fix no profile, so it is chosen when the program starts.            *)
VARIABLE overflow_checks

(* a + b, a - b, a * b leave the i32 range *)
add_overflows(a, b) ==
    \/ a > 0 /\ b > 0 /\ a > I32_MAX - b
    \/ a < 0 /\ b < 0 /\ a < I32_MIN - b

sub_overflows(a, b) ==
    \/ a >= 0 /\ b < 0 /\ a > I32_MAX + b
    \/ a < 0 /\ b > 0 /\ a < I32_MIN + b

mul_overflows(a, b) ==
    IF a = 0 \/ b = 0 THEN FALSE
    ELSE IF a > 0 /\ b > 0 THEN a > I32_MAX \div b
    ELSE IF a > 0 THEN b < (I32_MIN + a - 1) \div a
    ELSE IF b > 0 THEN a < (I32_MIN + b - 1) \div b
    ELSE a = I32_MIN \/ b = I32_MIN \/ (-a) > I32_MAX \div (-b)

(* i32 `+`, `-` and `*` as a build without overflow checks computes    *)
(* them: the result modulo 2^32, in the i32 range.  No intermediate    *)
(* value leaves the i32 range.                                         *)
wrapping_add(a, b) ==
    IF a > 0 /\ b > 0 /\ a > I32_MAX - b THEN (a + I32_MIN) + (b + I32_MIN)
    ELSE IF a < 0 /\ b < 0 /\ a < I32_MIN - b THEN (a - I32_MIN) + (b - I32_MIN)
    ELSE a + b

wrapping_sub(a, b) ==
    IF a >= 0 /\ b < 0 /\ a > I32_MAX + b THEN (a + I32_MIN) - (b - I32_MIN)
    ELSE IF a < 0 /\ b > 0 /\ a < I32_MIN + b THEN (a - I32_MIN) - (b + I32_MIN)
    ELSE a - b

(* the i32 with the 16-bit halves h and l, 0 <= h, l < 65536 *)
from_limbs(h, l) == (IF h >= 32768 THEN h - 65536 ELSE h) * 65536 + l

(* a * b modulo 2^32 from the halves a = ah * 65536 + al and           *)
(* b = bh * 65536 + bl, with 0 <= al, bl < 65536; al * bl is taken in  *)
(* two parts so that no intermediate value leaves the i32 range        *)
wrapping_limbs(ah, al, bh, bl) ==
    from_limbs(( ((al * (bl % 256) + 256 * ((al * (bl \div 256)) % 256)) \div 65536)
                 + ((al * (bl \div 256)) \div 256)
                 + ((ah * bl) % 65536) + ((al * bh) % 65536) ) % 65536,
               (al * (bl % 256) + 256 * ((al * (bl \div 256)) % 256)) % 65536)

wrapping_mul(a, b) == wrapping_limbs(a \div 65536, a % 65536, b \div 65536, b % 65536)

(* a / b toward zero for b > 0 *)
TruncPos(a, b) == IF a < 0 /\ a % b # 0 THEN (a \div b) + 1 ELSE a \div b

(* Rust integer division truncates toward zero; b # 0, and not         *)
(* i32::MIN / -1, which panics                                         *)
TruncDiv(a, b) ==
    IF b > 0 THEN TruncPos(a, b)
    ELSE IF b = I32_MIN THEN (IF a = I32_MIN THEN 1 ELSE 0)
    ELSE -TruncPos(a, -b)

(* the exit code of a process whose main thread panicked; here the     *)
(* return code of a call that does not return because it panics        *)
PANIC == 101

Max2(a, b) == IF a >= b THEN a ELSE b

DropFirst(s, n) == IF n >= Len(s) THEN <<>> ELSE SubSeq(s, n + 1, Len(s))
TakeFirst(s, n) == IF n <= 0 THEN <<>> ELSE SubSeq(s, 1, IF n > Len(s) THEN Len(s) ELSE n)

starts_with(s, p) == Len(s) >= Len(p) /\ SubSeq(s, 1, Len(p)) = p

RECURSIVE trim_start(_)
trim_start(s) ==
    IF s # <<>> /\ is_whitespace(s[1]) THEN trim_start(Tail(s)) ELSE s

RECURSIVE trim_end(_)
trim_end(s) ==
    IF s # <<>> /\ is_whitespace(s[Len(s)])
    THEN trim_end(SubSeq(s, 1, Len(s) - 1)) ELSE s

(* str::trim *)
trim(s) == trim_end(trim_start(s))

(* str::find(ch): 1-based index of the first occurrence, 0 when absent *)
find_char(s, ch) ==
    IF \E i \in 1 .. Len(s) : s[i] = ch
    THEN CHOOSE i \in 1 .. Len(s) : s[i] = ch /\ \A j \in 1 .. i - 1 : s[j] # ch
    ELSE 0

(* length of the longest prefix of s whose characters satisfy the class *)
RECURSIVE UpperRun(_)
UpperRun(s) ==
    IF s # <<>> /\ is_ascii_uppercase(s[1]) THEN 1 + UpperRun(Tail(s)) ELSE 0

RECURSIVE DigitRun(_)
DigitRun(s) ==
    IF s # <<>> /\ is_ascii_digit(s[1]) THEN 1 + DigitRun(Tail(s)) ELSE 0

(* value of a run of decimal digits *)
RECURSIVE DecValue(_)
DecValue(s) ==
    IF s = <<>> THEN 0 ELSE 10 * DecValue(SubSeq(s, 1, Len(s) - 1)) + to_digit(s[Len(s)])

(* the digits s accumulated upwards from acc, None on overflow *)
RECURSIVE parse_positive(_, _)
parse_positive(s, acc) ==
    IF s = <<>> THEN Some(acc)
    ELSE IF acc > (I32_MAX - to_digit(s[1])) \div 10 THEN None
    ELSE parse_positive(Tail(s), acc * 10 + to_digit(s[1]))

(* the digits s accumulated downwards from acc, None on overflow *)
RECURSIVE parse_negative(_, _)
parse_negative(s, acc) ==
    IF s = <<>> THEN Some(acc)
    ELSE IF acc < (I32_MIN + to_digit(s[1]) + 9) \div 10 THEN None
    ELSE parse_negative(Tail(s), acc * 10 - to_digit(s[1]))

parse_digits(body, negative) ==
    IF body = <<>> \/ DigitRun(body) # Len(body) THEN None
    ELSE IF negative THEN parse_negative(body, 0)
    ELSE parse_positive(body, 0)

(* str::parse::<i32>(): optional sign, at least one digit, in range *)
parse_i32(s) ==
    IF s # <<>> /\ s[1] \in {"+", "-"} THEN parse_digits(Tail(s), s[1] = "-")
    ELSE parse_digits(s, FALSE)

(* i32::to_string().len() *)
RECURSIVE DecLen(_)
DecLen(n) ==
    IF n < 0 THEN 1 + DecLen(-n)
    ELSE IF n < 10 THEN 1 ELSE 1 + DecLen(n \div 10)

(* ------------------------------------------------------------------ *)
(* Label codec (sheet.rs 519-645)                                      *)
(* ------------------------------------------------------------------ *)
(* The backwards scan of label_to_index: st holds the two counters and *)
(* the arrays alphabet[0..2] and number[0..2] (1-based here); ok is     *)
(* FALSE once one of the early `return None` has been taken.           *)
RECURSIVE label_scan(_, _, _)
label_scan(chars, i, st) ==
    IF i < 1 THEN st
    ELSE LET ch == chars[i] IN
         IF is_ascii_uppercase(ch) THEN
             IF st.count_digits = 0 \/ st.count_letters + 1 > 3
             THEN [st EXCEPT !.ok = FALSE]
             ELSE label_scan(chars, i - 1,
                      [st EXCEPT !.count_letters = @ + 1,
                                 !.alphabet[3 - st.count_letters] = LetterNum(ch)])
         ELSE IF is_ascii_digit(ch) THEN
             IF st.count_letters > 0 \/ st.count_digits + 1 > 3
             THEN [st EXCEPT !.ok = FALSE]
             ELSE label_scan(chars, i - 1,
                      [st EXCEPT !.count_digits = @ + 1,
                                 !.number[3 - st.count_digits] = to_digit(ch)])
         ELSE [st EXCEPT !.ok = FALSE]

(* variant: a row number may start with 0 *)
label_index_lenient(ok, a, n) ==
    IF ~ok THEN None
    ELSE Some(<< n[3] + (IF n[2] = -1 THEN 0 ELSE n[2]) * 10
                      + (IF n[1] = -1 THEN 0 ELSE n[1]) * 100 - 1,
                 a[3] + a[2] * 26 + a[1] * 26 * 26 - 1 >>)

(* the checks and the arithmetic that follow the scan *)
label_index(ok, a, n) ==
    IF ~ok THEN None
    ELSE IF \/ (n[1] = -1 /\ n[2] = -1 /\ n[3] = 0)
            \/ (n[1] = -1 /\ n[2] = 0)
            \/ n[1] = 0
    THEN None
    ELSE Some(<< n[3] + (IF n[2] = -1 THEN 0 ELSE n[2]) * 10
                      + (IF n[1] = -1 THEN 0 ELSE n[1]) * 100 - 1,
                 a[3] + a[2] * 26 + a[1] * 26 * 26 - 1 >>)

label_scanned(st) == label_index(st.ok, st.alphabet, st.number)

(* label_to_index: None, or Some(<<row, col>>) *)
label_to_index(label) ==
    IF Len(label) > 6 \/ label = <<>> \/ ~is_ascii_uppercase(label[1]) THEN None
    ELSE label_scanned(label_scan(label, Len(label),
                           [ok |-> TRUE, count_letters |-> 0, count_digits |-> 0,
                            alphabet |-> <<0, 0, 0>>, number |-> <<-1, -1, -1>>]))

RECURSIVE col_fold(_, _)
col_fold(label, index) ==
    IF label = <<>> THEN index
    ELSE col_fold(Tail(label), index * 26 + LetterNum(label[1]))

(* col_label_to_index: None, or Some(col) *)
col_label_to_index(label) ==
    IF label = <<>> THEN None
    ELSE IF \E i \in 1 .. Len(label) : ~is_ascii_uppercase(label[i]) THEN None
    ELSE Some(col_fold(label, 0) - 1)

(* variant: the index is written in plain base 26, without            *)
(* `index -= 1` between the letters                                    *)
RECURSIVE col_index_to_label_plain(_)
col_index_to_label_plain(index) ==
    IF index \div 26 = 0 THEN <<Letters[(index % 26) + 1]>>
    ELSE col_index_to_label_plain(index \div 26) \o <<Letters[(index % 26) + 1]>>

(* col_index_to_label: the loop fills the buffer from the right *)
RECURSIVE col_index_to_label(_)
col_index_to_label(index) ==
    IF index \div 26 = 0 THEN <<Letters[(index % 26) + 1]>>
    ELSE col_index_to_label((index \div 26) - 1) \o <<Letters[(index % 26) + 1]>>

(* the split after the first nl characters, the letters of the label *)
split_at(s, nl) ==
    IF \E i \in nl + 1 .. Len(s) : ~is_ascii_digit(s[i]) THEN None
    ELSE IF nl = 0 \/ nl = Len(s) THEN None
    ELSE Some(<<TakeFirst(s, nl), DropFirst(s, nl)>>)

(* split_label_and_number: None, or Some(<<label, number>>) *)
split_label_and_number(s) ==
    split_at(s, CHOOSE k \in 0 .. Len(s) :
                    /\ \A i \in 1 .. k : is_ascii_alphabetic(s[i])
                    /\ (k < Len(s) => ~is_ascii_alphabetic(s[k + 1])))

(* ------------------------------------------------------------------ *)
(* AVL tree of cells (avl.rs).  A Link is Nil or a node                *)
(* <<cell, left, right, height>>; a cell is <<row, col>>.              *)
(* ------------------------------------------------------------------ *)
Nil == <<>>
AvlNode(cell) == <<cell, Nil, Nil, 1>>
MkNode(cell, left, right) ==
    <<cell, left, right,
      1 + Max2(IF left = Nil THEN 0 ELSE left[4], IF right = Nil THEN 0 ELSE right[4])>>
NodeCell(n) == n[1]
Left(n) == n[2]
Right(n) == n[3]

height(node) == IF node = Nil THEN 0 ELSE node[4]
get_balance(node) == height(Left(node)) - height(Right(node))

(* tuple order on (row, col), as compare_cells and the tuple comparisons *)
CellLess(a, b) == a[1] < b[1] \/ (a[1] = b[1] /\ a[2] < b[2])

rotate_right(y) ==
    MkNode(NodeCell(Left(y)), Left(Left(y)), MkNode(NodeCell(y), Right(Left(y)), Right(y)))

(* variant: the left subtree of the right child is not handed over *)
rotate_left_dropping(x) ==
    MkNode(NodeCell(Right(x)), MkNode(NodeCell(x), Left(x), Nil), Right(Right(x)))

rotate_left(x) ==
    MkNode(NodeCell(Right(x)), MkNode(NodeCell(x), Left(x), Left(Right(x))), Right(Right(x)))

(* the four rotation cases of insert, for the node n with its new height *)
insert_balance(n, cell, balance) ==
    IF balance > 1 /\ CellLess(cell, NodeCell(Left(n))) THEN rotate_right(n)
    ELSE IF balance < -1 /\ CellLess(NodeCell(Right(n)), cell) THEN rotate_left(n)
    ELSE IF balance > 1 /\ CellLess(NodeCell(Left(n)), cell)
         THEN rotate_right(<<NodeCell(n), rotate_left(Left(n)), Right(n), n[4]>>)
    ELSE IF balance < -1 /\ CellLess(cell, NodeCell(Right(n)))
         THEN rotate_left(<<NodeCell(n), Left(n), rotate_right(Right(n)), n[4]>>)
    ELSE n

insert_updated(n, cell) == insert_balance(n, cell, get_balance(n))

RECURSIVE insert(_, _)
insert(node, cell) ==
    IF node = Nil THEN AvlNode(cell)
    ELSE IF cell = NodeCell(node) THEN node
    ELSE insert_updated(
             IF CellLess(cell, NodeCell(node))
             THEN MkNode(NodeCell(node), insert(Left(node), cell), Right(node))
             ELSE MkNode(NodeCell(node), Left(node), insert(Right(node), cell)),
             cell)

RECURSIVE find(_, _)
find(node, cell) ==
    IF node = Nil THEN FALSE
    ELSE IF cell = NodeCell(node) THEN TRUE
    ELSE IF CellLess(cell, NodeCell(node)) THEN find(Left(node), cell)
    ELSE find(Right(node), cell)

RECURSIVE min_value_node(_)
min_value_node(node) ==
    IF Left(node) = Nil THEN node ELSE min_value_node(Left(node))

(* the four rotation cases of delete_node, for the node with its new height *)
delete_balance(node, balance) ==
    IF balance > 1 /\ get_balance(Left(node)) >= 0 THEN rotate_right(node)
    ELSE IF balance > 1
         THEN rotate_right(<<NodeCell(node), rotate_left(Left(node)),
                             Right(node), node[4]>>)
    ELSE IF balance < -1 /\ get_balance(Right(node)) <= 0 THEN rotate_left(node)
    ELSE IF balance < -1
         THEN rotate_left(<<NodeCell(node), Left(node),
                            rotate_right(Right(node)), node[4]>>)
    ELSE node

delete_updated(node) == delete_balance(node, get_balance(node))

RECURSIVE delete_node(_, _)
(* the node with two children takes the cell of its in-order successor *)
delete_successor(root, temp) ==
    MkNode(NodeCell(temp), Left(root), delete_node(Right(root), NodeCell(temp)))

delete_node(root, cell) ==
    IF root = Nil THEN Nil
    ELSE IF cell = NodeCell(root) /\ (Left(root) = Nil \/ Right(root) = Nil)
         THEN (IF Left(root) # Nil THEN Left(root) ELSE Right(root))
    ELSE delete_updated(
             IF CellLess(cell, NodeCell(root))
             THEN MkNode(NodeCell(root), delete_node(Left(root), cell), Right(root))
             ELSE IF CellLess(NodeCell(root), cell)
             THEN MkNode(NodeCell(root), Left(root), delete_node(Right(root), cell))
             ELSE delete_successor(root, min_value_node(Right(root))))

(* the cells held by a tree *)
RECURSIVE TreeCells(_)
TreeCells(node) ==
    IF node = Nil THEN {}
    ELSE {NodeCell(node)} \cup TreeCells(Left(node)) \cup TreeCells(Right(node))

(* ------------------------------------------------------------------ *)
(* Cycle detection (sheet.rs 132-353).  sheet maps every cell to its   *)
(* record; visited is the set of marked cells.                         *)
(* A Vec used as a stack is a sequence whose last element is the top.  *)
(* ------------------------------------------------------------------ *)
Pop(stack) == SubSeq(stack, 1, Len(stack) - 1)
Top(stack) == stack[Len(stack)]

RECURSIVE dfs(_, _, _, _)
RECURSIVE dfs_loop(_, _, _, _)

(* `while let Some(Some(node)) = stack.pop()`: the loop ends when the   *)
(* stack is empty and also when the popped link is None.                *)
dfs_loop(stack, target, visited, sheet) ==
    IF stack = <<>> THEN [found |-> FALSE, visited |-> visited]
    ELSE IF Top(stack) = Nil THEN [found |-> FALSE, visited |-> visited]
    ELSE LET node == Top(stack)
             dep_cell == NodeCell(node)
         IN  IF dep_cell = target THEN [found |-> TRUE, visited |-> visited]
             ELSE LET sub == IF dep_cell \notin visited
                             THEN dfs(dep_cell, target, visited \cup {dep_cell}, sheet)
                             ELSE [found |-> FALSE, visited |-> visited]
                  IN  IF sub.found THEN sub
                      ELSE dfs_loop(Pop(stack) \o <<Left(node), Right(node)>>,
                                    target, sub.visited, sheet)

dfs(current, target, visited, sheet) ==
    IF current \in visited THEN [found |-> FALSE, visited |-> visited]
    ELSE LET v == visited \cup {current}
         IN  IF current = target THEN [found |-> TRUE, visited |-> v]
             ELSE IF find(sheet[current].dependencies, target) THEN [found |-> TRUE, visited |-> v]
             ELSE dfs_loop(<<sheet[current].dependencies>>, target, v, sheet)

(* variant: only the recorded direct readers of start are looked at *)
check_loop_direct(start, target, sheet) ==
    find(sheet[start].dependencies, target)

check_loop(start, target, sheet) ==
    IF start = target THEN TRUE
    ELSE IF find(sheet[start].dependencies, target) THEN TRUE
    ELSE dfs(start, target, {}, sheet).found

InRange(cell, row1, col1, row2, col2) ==
    cell[1] >= row1 /\ cell[1] <= row2 /\ cell[2] >= col1 /\ cell[2] <= col2

RECURSIVE dfs_range(_, _, _, _, _, _, _)
RECURSIVE dfs_range_loop(_, _, _, _, _, _, _)

dfs_range_loop(stack, visited, row1, col1, row2, col2, sheet) ==
    IF stack = <<>> THEN [found |-> FALSE, visited |-> visited]
    ELSE IF Top(stack) = Nil THEN [found |-> FALSE, visited |-> visited]
    ELSE LET node == Top(stack)
             sub == dfs_range(NodeCell(node), visited, row1, col1, row2, col2, sheet)
         IN  IF sub.found THEN sub
             ELSE dfs_range_loop(Pop(stack) \o <<Left(node), Right(node)>>,
                                 sub.visited, row1, col1, row2, col2, sheet)

dfs_range(current, visited, row1, col1, row2, col2, sheet) ==
    IF InRange(current, row1, col1, row2, col2)
    THEN [found |-> TRUE, visited |-> visited]
    ELSE IF current \notin visited
    THEN dfs_range_loop(<<sheet[current].dependencies>>, visited \cup {current},
                        row1, col1, row2, col2, sheet)
    ELSE [found |-> FALSE, visited |-> visited]

check_loop_range(start, row1, col1, row2, col2, sheet) ==
    dfs_range(start, {}, row1, col1, row2, col2, sheet).found

(* ------------------------------------------------------------------ *)
(* Topological sort (sheet.rs 374-449).  The result stack is a linked  *)
(* list (stack.rs): a sequence whose first element is the top.         *)
(* ------------------------------------------------------------------ *)
push(stack, cell) == <<cell>> \o stack
pop(stack) == Tail(stack)

RECURSIVE topological_sort_util(_, _, _)
RECURSIVE topo_loop(_, _, _)

(* dep_stack holds pairs <<link, processed>>; st = [visited, stack] *)
topo_loop(dep_stack, st, sheet) ==
    IF dep_stack = <<>> THEN st
    ELSE LET node_link == Top(dep_stack)[1]
             processed == Top(dep_stack)[2]
             rest == Pop(dep_stack)
         IN  IF processed
             THEN IF rest # <<>> /\ Top(rest)[1] # Nil
                  THEN topo_loop(rest,
                           [st EXCEPT !.stack = push(@, NodeCell(Top(rest)[1]))], sheet)
                  ELSE topo_loop(rest, st, sheet)
             ELSE IF node_link = Nil THEN topo_loop(rest, st, sheet)
             ELSE LET d1 == rest \o <<(<<node_link, TRUE>>)>>
                      d2 == IF Right(node_link) # Nil
                            THEN d1 \o <<(<<Right(node_link), FALSE>>)>> ELSE d1
                      st2 == topological_sort_util(NodeCell(node_link), st, sheet)
                      d3 == IF Left(node_link) # Nil
                            THEN d2 \o <<(<<Left(node_link), FALSE>>)>> ELSE d2
                  IN  topo_loop(d3, st2, sheet)

topological_sort_util(cell, st, sheet) ==
    IF cell \in st.visited THEN st
    ELSE LET st1 == topo_loop(<<(<<sheet[cell].dependencies, FALSE>>)>>,
                              [st EXCEPT !.visited = @ \cup {cell}], sheet)
         IN  [st1 EXCEPT !.stack = push(@, cell)]

topological_sort_from_cell(start_cell, sheet) ==
    topological_sort_util(start_cell, [visited |-> {}, stack |-> <<>>], sheet).stack

(* ------------------------------------------------------------------ *)
(* Dependency index (sheet.rs 55-104, stack.rs 54-92).  A `dependents` *)
(* stack is a sequence whose first element is the top.                 *)
(* ------------------------------------------------------------------ *)
add_dependency(c, dep, sheet) ==
    [sheet EXCEPT ![c].dependencies = insert(@, dep)]

push_dependent(cell, dep, sheet) ==
    [sheet EXCEPT ![cell].dependents = <<dep>> \o @]

pop_dependent(cell, sheet) ==
    IF sheet[cell].dependents = <<>> THEN sheet
    ELSE [sheet EXCEPT ![cell].dependents = Tail(@)]

(* One pass of the loop: `dependents.take()` moves the whole list out   *)
(* of the cell and leaves None; the head's cell loses (row, col) from   *)
(* its tree; pop_dependent then finds the stack already empty.          *)
RECURSIVE delete_dependencies(_, _)
delete_dependencies(cell1, sheet) ==
    IF sheet[cell1].dependents = <<>> THEN sheet
    ELSE delete_dependencies(cell1,
             pop_dependent(cell1,
                 [sheet EXCEPT ![cell1].dependents = <<>>,
                               ![Head(sheet[cell1].dependents)].dependencies =
                                   delete_node(@, cell1)]))

(* ------------------------------------------------------------------ *)
(* evaluate_expression (sheet.rs 795-1438).  The outcome is the record *)
(* [code, result, sheet, slept]: the return code, the out-parameter    *)
(* (res0 when it is left untouched), the sheet after the call and the  *)
(* seconds passed to sleep_seconds.                                    *)
(* ------------------------------------------------------------------ *)
Outcome(code, result, sheet, slept) ==
    [code |-> code, result |-> result, sheet |-> sheet, slept |-> slept]

(* variant: the integer branch clears the edges in either mode *)
eval_integer_clearing(val, sheet, cell, call_value) ==
    Outcome(0, val, delete_dependencies(cell, sheet), 0)

(* first branch: the whole text parses as an i32 *)
eval_integer(val, sheet, cell, call_value) ==
    Outcome(0, val, IF call_value = 1 THEN delete_dependencies(cell, sheet) ELSE sheet, 0)

(* expr.chars().nth(k) *)
nth(s, k) == IF k + 1 <= Len(s) THEN Some(s[k + 1]) ELSE None

(* text between "SLEEP(" and the final ")", None when the frame is absent *)
SleepInner(s) ==
    IF /\ starts_with(s, <<"S","L","E","E","P","(">>)
       /\ Len(s) >= 7
       /\ s[Len(s)] = ")"
       /\ \A i \in 7 .. Len(s) - 1 : s[i] # ")"
    THEN Some(SubSeq(s, 7, Len(s) - 1))
    ELSE None

(* the signed digits and the rest of the text t between the parentheses *)
sleep_num_caps(t, sign) ==
    LET nd == DigitRun(DropFirst(t, sign))
    IN  IF nd = 0 THEN None
        ELSE Some(<<TakeFirst(t, sign + nd), DropFirst(t, sign + nd)>>)

sleep_num_inner(t) == sleep_num_caps(t, IF t # <<>> /\ t[1] = "-" THEN 1 ELSE 0)

(* SLEEP_REGEX_NUM: None, or Some(<<digits with sign, rest>>) *)
sleep_regex_num(s) ==
    IF SleepInner(s) = None THEN None ELSE sleep_num_inner(unwrap(SleepInner(s)))

(* the letters, the digits and the rest of the text t *)
ref_caps(t) ==
    LET nl == UpperRun(t)
        nd == DigitRun(DropFirst(t, nl))
    IN  IF nl = 0 \/ nd = 0 THEN None
        ELSE Some(<<TakeFirst(t, nl), SubSeq(t, nl + 1, nl + nd), DropFirst(t, nl + nd)>>)

(* SLEEP_REGEX_CELL: None, or Some(<<letters, digits, rest>>) *)
sleep_regex_cell(s) ==
    IF SleepInner(s) = None THEN None ELSE ref_caps(unwrap(SleepInner(s)))

(* CELL_REF_REGEX: None, or Some(<<letters, digits, rest>>) *)
cell_ref_regex(s) == ref_caps(s)

(* FUNC_REGEX: None, or Some(<<func, label1, row1, label2, row2, rest>>); *)
(* nf, nl1, nd1, nl2, nd2 are the lengths of the five greedy runs.       *)
func_caps(s, nf, nl1, nd1, nl2, nd2) ==
    IF /\ nf >= 1 /\ nf <= 9
       /\ nth(s, nf) = Some("(")
       /\ nl1 >= 1 /\ nd1 >= 1
       /\ nth(s, nf + 1 + nl1 + nd1) = Some(":")
       /\ nl2 >= 1 /\ nd2 >= 1
       /\ nth(s, nf + 1 + nl1 + nd1 + 1 + nl2 + nd2) = Some(")")
    THEN Some(<<TakeFirst(s, nf),
                SubSeq(s, nf + 2, nf + 1 + nl1),
                SubSeq(s, nf + 2 + nl1, nf + 1 + nl1 + nd1),
                SubSeq(s, nf + 3 + nl1 + nd1, nf + 2 + nl1 + nd1 + nl2),
                SubSeq(s, nf + 3 + nl1 + nd1 + nl2, nf + 2 + nl1 + nd1 + nl2 + nd2),
                DropFirst(s, nf + 3 + nl1 + nd1 + nl2 + nd2)>>)
    ELSE None

func_row2(s, nf, nl1, nd1, nl2) ==
    func_caps(s, nf, nl1, nd1, nl2, DigitRun(DropFirst(s, nf + 2 + nl1 + nd1 + nl2)))

func_label2(s, nf, nl1, nd1) ==
    func_row2(s, nf, nl1, nd1, UpperRun(DropFirst(s, nf + 2 + nl1 + nd1)))

func_row1(s, nf, nl1) == func_label2(s, nf, nl1, DigitRun(DropFirst(s, nf + 1 + nl1)))

func_label1(s, nf) == func_row1(s, nf, UpperRun(DropFirst(s, nf + 1)))

func_regex(s) == func_label1(s, UpperRun(s))

(* caps.get(..).parse::<i32>().unwrap_or(-1) *)
unwrap_or(o, default) == IF o = None THEN default ELSE unwrap(o)

parse_or_minus1(s) == unwrap_or(parse_i32(s), -1)

(* variant: a negative count is rejected *)
sleep_for_rejecting(result_value, res0, sheet) ==
    IF result_value < 0 THEN Outcome(-1, res0, sheet, 0)
    ELSE Outcome(0, result_value, sheet, result_value)

(* SLEEP(n) *)
sleep_for(result_value, res0, sheet) ==
    Outcome(0, result_value, sheet, IF result_value < 0 THEN 0 ELSE result_value)

eval_sleep_num(caps, res0, sheet) ==
    IF caps[2] # <<>> THEN Outcome(-1, res0, sheet, 0)
    ELSE sleep_for(parse_or_minus1(caps[1]), res0, sheet)

(* the edges of a single read: clear, then record to_cell as reader of from_cell *)
bind_single(from_cell, to_cell, sheet) ==
    push_dependent(to_cell, from_cell,
        add_dependency(from_cell, to_cell, delete_dependencies(to_cell, sheet)))

(* SLEEP(Ref), once row1 and col1 are known *)
sleep_cell(row1, col1, rows, cols, res0, sheet, cell, call_value) ==
    IF row1 < 0 THEN Outcome(-1, res0, sheet, 0)
    ELSE IF col1 >= cols \/ row1 >= rows THEN Outcome(-1, res0, sheet, 0)
    ELSE IF check_loop(cell, <<row1, col1>>, sheet) THEN Outcome(-4, res0, sheet, 0)
    ELSE Outcome(IF sheet[<<row1, col1>>].status = 1 THEN -2 ELSE 0,
                 sheet[<<row1, col1>>].val,
                 IF call_value = 1 THEN bind_single(<<row1, col1>>, cell, sheet) ELSE sheet,
                 IF sheet[<<row1, col1>>].status = 1 \/ sheet[<<row1, col1>>].val < 0
                 THEN 0 ELSE sheet[<<row1, col1>>].val)

(* SLEEP(Ref) *)
eval_sleep_cell(caps, rows, cols, res0, sheet, cell, call_value) ==
    IF caps[3] # <<>> THEN Outcome(-1, res0, sheet, 0)
    ELSE IF caps[2][1] = "0" THEN Outcome(-1, res0, sheet, 0)
    ELSE sleep_cell(parse_or_minus1(caps[2]) - 1, unwrap(col_label_to_index(caps[1])),
                    rows, cols, res0, sheet, cell, call_value)

(* a single reference, once row1 and col1 are known *)
cell_ref(row1, col1, rows, cols, res0, sheet, cell, call_value) ==
    IF row1 < 0 THEN Outcome(-1, res0, sheet, 0)
    ELSE IF col1 >= cols \/ row1 >= rows THEN Outcome(-1, res0, sheet, 0)
    ELSE IF check_loop(cell, <<row1, col1>>, sheet) THEN Outcome(-4, res0, sheet, 0)
    ELSE Outcome(IF sheet[<<row1, col1>>].status = 1 THEN -2 ELSE 0,
                 sheet[<<row1, col1>>].val,
                 IF call_value = 1 THEN bind_single(<<row1, col1>>, cell, sheet) ELSE sheet,
                 0)

(* a single reference *)
eval_cell_ref(caps, rows, cols, res0, sheet, cell, call_value) ==
    IF caps[3] # <<>> THEN Outcome(-1, res0, sheet, 0)
    ELSE IF caps[2][1] = "0" THEN Outcome(-1, res0, sheet, 0)
    ELSE cell_ref(parse_or_minus1(caps[2]) - 1, unwrap(col_label_to_index(caps[1])),
                  rows, cols, res0, sheet, cell, call_value)

(* `"+-*/".chars().find_map(|op| trimmed_expr.find(op))`: the operators  *)
(* are tried in the order + - * /; the first one that occurs anywhere   *)
(* decides, at its own first occurrence.  <<index, operator>>, or None. *)
find_operator(s) ==
    IF find_char(s, "+") # 0 THEN Some(<<find_char(s, "+"), "+">>)
    ELSE IF find_char(s, "-") # 0 THEN Some(<<find_char(s, "-"), "-">>)
    ELSE IF find_char(s, "*") # 0 THEN Some(<<find_char(s, "*"), "*">>)
    ELSE IF find_char(s, "/") # 0 THEN Some(<<find_char(s, "/"), "/">>)
    ELSE None

(* one operand of a binary formula (sheet.rs 941-976 and 979-1014):     *)
(* code 0 with its value, or the code of the early return; row = -1     *)
(* for an integer operand, as row1/row2 are initialised.                *)
Operand(code, row, col, value, err) ==
    [code |-> code, row |-> row, col |-> col, value |-> value, err |-> err]

(* a reference operand whose column and row parsed *)
operand_cell(row, col, rows, cols, sheet, cell) ==
    IF col >= cols \/ row < 0 \/ row >= rows THEN Operand(-1, -1, 0, 0, 0)
    ELSE IF check_loop(cell, <<row, col>>, sheet) THEN Operand(-4, row, col, 0, 0)
    ELSE Operand(0, row, col, sheet[<<row, col>>].val, sheet[<<row, col>>].status)

(* a reference operand split into its label and its number *)
operand_ref(label, num, rows, cols, sheet, cell) ==
    IF num[1] = "0" THEN Operand(-1, -1, 0, 0, 0)
    ELSE IF col_label_to_index(label) = None THEN Operand(-1, -1, 0, 0, 0)
    ELSE IF parse_i32(num) = None THEN Operand(-1, -1, 0, 0, 0)
    ELSE operand_cell(unwrap(parse_i32(num)) - 1, unwrap(col_label_to_index(label)),
                      rows, cols, sheet, cell)

operand_split(sp, e, rows, cols, sheet, cell) ==
    IF sp # None THEN operand_ref(unwrap(sp)[1], unwrap(sp)[2], rows, cols, sheet, cell)
    ELSE IF parse_i32(e) # None THEN Operand(0, -1, 0, unwrap(parse_i32(e)), 0)
    ELSE Operand(-1, -1, 0, 0, 0)

process_operand(e, rows, cols, sheet, cell) ==
    operand_split(split_label_and_number(e), e, rows, cols, sheet, cell)

(* the edge of the first operand, when it is a reference *)
bind_first(o1, cell, sheet) ==
    IF o1.row >= 0
    THEN push_dependent(cell, <<o1.row, o1.col>>,
             add_dependency(<<o1.row, o1.col>>, cell, sheet))
    ELSE sheet

(* variant: the second edge is made only for a cell of another row    *)
(* and another column                                                  *)
bind_second_strict(o1, o2, cell, sheet) ==
    IF o2.row >= 0 /\ (o2.col # o1.col /\ o2.row # o1.row)
    THEN push_dependent(cell, <<o2.row, o2.col>>,
             add_dependency(<<o2.row, o2.col>>, cell, sheet))
    ELSE sheet

(* the edge of the second operand, when it is another reference *)
bind_second(o1, o2, cell, sheet) ==
    IF o2.row >= 0 /\ (o2.col # o1.col \/ o2.row # o1.row)
    THEN push_dependent(cell, <<o2.row, o2.col>>,
             add_dependency(<<o2.row, o2.col>>, cell, sheet))
    ELSE sheet

(* Dependency logic of the binary branch (sheet.rs 1016-1033) *)
bind_binary(o1, o2, cell, sheet) ==
    bind_second(o1, o2, cell, bind_first(o1, cell, delete_dependencies(cell, sheet)))

(* value1 operator value2 overflows, for the operators + - * *)
arith_overflows(operator, value1, value2) ==
    \/ operator = "+" /\ add_overflows(value1, value2)
    \/ operator = "-" /\ sub_overflows(value1, value2)
    \/ operator = "*" /\ mul_overflows(value1, value2)

(* the calculation of the binary branch (sheet.rs 1035-1052); a build  *)
(* with overflow checks panics where the other wraps, and every build  *)
(* panics on i32::MIN / -1                                             *)
calculate(operator, value1, value2, count_status, res0, sheet) ==
    IF count_status > 0 THEN Outcome(-2, res0, sheet, 0)
    ELSE IF overflow_checks /\ arith_overflows(operator, value1, value2)
    THEN Outcome(PANIC, res0, sheet, 0)
    ELSE IF operator = "+" THEN Outcome(0, wrapping_add(value1, value2), sheet, 0)
    ELSE IF operator = "-" THEN Outcome(0, wrapping_sub(value1, value2), sheet, 0)
    ELSE IF operator = "*" THEN Outcome(0, wrapping_mul(value1, value2), sheet, 0)
    ELSE IF value2 = 0 THEN Outcome(-2, res0, sheet, 0)
    ELSE IF value1 = I32_MIN /\ value2 = -1 THEN Outcome(PANIC, res0, sheet, 0)
    ELSE Outcome(0, TruncDiv(value1, value2), sheet, 0)

(* both operands are processed *)
binary_both(o1, o2, operator, res0, sheet, cell, call_value) ==
    IF o2.code # 0 THEN Outcome(o2.code, res0, sheet, 0)
    ELSE calculate(operator, o1.value, o2.value, o1.err + o2.err, res0,
                   IF call_value = 1 THEN bind_binary(o1, o2, cell, sheet) ELSE sheet)

(* the first operand is processed; the second is expr2 *)
binary_first(o1, expr2, operator, rows, cols, res0, sheet, cell, call_value) ==
    IF o1.code # 0 THEN Outcome(o1.code, res0, sheet, 0)
    ELSE binary_both(o1, process_operand(expr2, rows, cols, sheet, cell), operator,
                     res0, sheet, cell, call_value)

(* binary arithmetic: op is <<index, operator>> *)
eval_binary(trimmed_expr, op, rows, cols, res0, sheet, cell, call_value) ==
    binary_first(process_operand(trim(TakeFirst(trimmed_expr, op[1] - 1)),
                                 rows, cols, sheet, cell),
                 trim(DropFirst(trimmed_expr, op[1])), op[2],
                 rows, cols, res0, sheet, cell, call_value)

(* the cells of a rectangle in the order of the nested loops *)
RangeCells(row1, col1, row2, col2) ==
    LET w == col2 - col1 + 1
        n == (row2 - row1 + 1) * w
    IN  [k \in 1 .. n |-> <<row1 + ((k - 1) \div w), col1 + ((k - 1) % w)>>]

(* add_dependency and push_dependent for every cell of the rectangle *)
RECURSIVE bind_range(_, _, _)
bind_range(cells, to_cell, sheet) ==
    IF cells = <<>> THEN sheet
    ELSE bind_range(Tail(cells), to_cell,
             push_dependent(to_cell, Head(cells),
                 add_dependency(Head(cells), to_cell, sheet)))

RECURSIVE SumVal(_, _)
SumVal(cells, sheet) ==
    IF cells = <<>> THEN 0
    ELSE wrapping_add(sheet[Head(cells)].val, SumVal(Tail(cells), sheet))

(* `*result += cell.val` overflows at some cell, starting from acc *)
RECURSIVE sum_overflows(_, _, _)
sum_overflows(cells, sheet, acc) ==
    IF cells = <<>> THEN FALSE
    ELSE \/ add_overflows(acc, sheet[Head(cells)].val)
         \/ sum_overflows(Tail(cells), sheet, acc + sheet[Head(cells)].val)

(* `(val - mean).pow(2)` overflows at some cell *)
dev_overflows(cells, sheet, mean) ==
    \E k \in 1 .. Len(cells) :
        \/ sub_overflows(sheet[cells[k]].val, mean)
        \/ mul_overflows(sheet[cells[k]].val - mean, sheet[cells[k]].val - mean)

(* the arithmetic of an aggregate overflows *)
aggregate_overflows(func, cells, sheet) ==
    IF func \in {<<"M","A","X">>, <<"M","I","N">>} THEN FALSE
    ELSE \/ sum_overflows(cells, sheet, 0)
         \/ /\ func = <<"S","T","D","E","V">>
            /\ dev_overflows(cells, sheet, TruncDiv(SumVal(cells, sheet), Len(cells)))

RECURSIVE MaxVal(_, _, _)
MaxVal(cells, sheet, acc) ==
    IF cells = <<>> THEN acc
    ELSE MaxVal(Tail(cells), sheet,
                IF sheet[Head(cells)].val >= acc THEN sheet[Head(cells)].val ELSE acc)

RECURSIVE MinVal(_, _, _)
MinVal(cells, sheet, acc) ==
    IF cells = <<>> THEN acc
    ELSE MinVal(Tail(cells), sheet,
                IF sheet[Head(cells)].val <= acc THEN sheet[Head(cells)].val ELSE acc)

RECURSIVE SumSqDev(_, _, _)
SumSqDev(cells, sheet, mean) ==
    IF cells = <<>> THEN 0
    ELSE wrapping_mul(wrapping_sub(sheet[Head(cells)].val, mean),
                      wrapping_sub(sheet[Head(cells)].val, mean))
         + SumSqDev(Tail(cells), sheet, mean)

(* (variance / count).sqrt().round(): the n with                        *)
(* n - 1/2 <= sqrt(variance / count) < n + 1/2                          *)
RECURSIVE RoundSqrt(_, _, _)
RoundSqrt(variance, count, n) ==
    IF (2 * n + 1) * (2 * n + 1) * count <= 4 * variance
    THEN RoundSqrt(variance, count, n + 1) ELSE n

CountErr(cells, sheet) == Cardinality({k \in 1 .. Len(cells) : sheet[cells[k]].status = 1})

(* the value an aggregate writes to *result *)
aggregate(func, cells, sheet) ==
    IF func = <<"S","U","M">> THEN SumVal(cells, sheet)
    ELSE IF func = <<"A","V","G">> THEN TruncDiv(SumVal(cells, sheet), Len(cells))
    ELSE IF func = <<"M","A","X">> THEN MaxVal(cells, sheet, I32_MIN)
    ELSE IF func = <<"M","I","N">> THEN MinVal(cells, sheet, I32_MAX)
    ELSE RoundSqrt(SumSqDev(cells, sheet, TruncDiv(SumVal(cells, sheet), Len(cells))),
                   Len(cells), 0)

FuncNames == {<<"S","U","M">>, <<"A","V","G">>, <<"M","A","X">>, <<"M","I","N">>,
              <<"S","T","D","E","V">>}

(* the aggregate over the cells of a rectangle that passed the checks; *)
(* a build with overflow checks panics where the other wraps           *)
func_over(func, cells, res0, sheet, cell, call_value) ==
    Outcome(IF overflow_checks /\ aggregate_overflows(func, cells, sheet) THEN PANIC
            ELSE IF CountErr(cells, sheet) > 0 THEN -2 ELSE 0,
            aggregate(func, cells, sheet),
            IF call_value = 1
            THEN bind_range(cells, cell, delete_dependencies(cell, sheet))
            ELSE sheet,
            0)

(* the checks on the corners of the rectangle *)
func_range(func, row1, col1, row2, col2, rows, cols, res0, sheet, cell, call_value) ==
    IF \/ col1 >= cols \/ row1 < 0 \/ row1 >= rows
       \/ col2 >= cols \/ row2 < 0 \/ row2 >= rows
       \/ row2 < row1 \/ col2 < col1
    THEN Outcome(-1, res0, sheet, 0)
    ELSE IF check_loop_range(cell, row1, col1, row2, col2, sheet)
    THEN Outcome(-4, res0, sheet, 0)
    ELSE func_over(func, RangeCells(row1, col1, row2, col2), res0, sheet, cell, call_value)

(* the checks on the text, with the two row numbers parsed *)
func_rows(expr, caps, row1p, row2p, rows, cols, res0, sheet, cell, call_value) ==
    IF caps[6] # <<>> THEN Outcome(-1, res0, sheet, 0)
    ELSE IF caps[1] \notin FuncNames \/ Len(caps[2]) > 3 \/ Len(caps[4]) > 3
    THEN Outcome(-1, res0, sheet, 0)
    ELSE IF caps[3][1] = "0" THEN Outcome(-1, res0, sheet, 0)
    ELSE IF nth(expr, Len(caps[1]) + Len(caps[2]) + 1 + DecLen(row1p) + 1 + Len(caps[4]))
            = Some("0")
    THEN Outcome(-1, res0, sheet, 0)
    ELSE IF nth(expr, Len(caps[1]) + Len(caps[2]) + 1 + DecLen(row1p) + 1 + Len(caps[4])
                      + DecLen(row2p)) # Some(")")
    THEN Outcome(-1, res0, sheet, 0)
    ELSE func_range(caps[1], row1p - 1, unwrap(col_label_to_index(caps[2])),
                    row2p - 1, unwrap(col_label_to_index(caps[4])),
                    rows, cols, res0, sheet, cell, call_value)

(* SUM, AVG, MAX, MIN, STDEV over a rectangle (sheet.rs 1055-1355) *)
eval_func(expr, caps, rows, cols, res0, sheet, cell, call_value) ==
    func_rows(expr, caps, parse_or_minus1(caps[3]), parse_or_minus1(caps[5]),
              rows, cols, res0, sheet, cell, call_value)

(* the branches in the order the code tries them, on the trimmed text *)
evaluate_trimmed(expr, trimmed_expr, rows, cols, sheet, res0, cell, call_value) ==
    IF parse_i32(trimmed_expr) # None
    THEN eval_integer(unwrap(parse_i32(trimmed_expr)), sheet, cell, call_value)
    ELSE IF sleep_regex_num(trimmed_expr) # None
    THEN eval_sleep_num(unwrap(sleep_regex_num(trimmed_expr)), res0, sheet)
    ELSE IF sleep_regex_cell(trimmed_expr) # None
    THEN eval_sleep_cell(unwrap(sleep_regex_cell(trimmed_expr)), rows, cols, res0,
                         sheet, cell, call_value)
    ELSE IF find_operator(trimmed_expr) # None
    THEN eval_binary(trimmed_expr, unwrap(find_operator(trimmed_expr)), rows, cols,
                     res0, sheet, cell, call_value)
    ELSE IF func_regex(trimmed_expr) # None
    THEN eval_func(expr, unwrap(func_regex(trimmed_expr)), rows, cols, res0,
                   sheet, cell, call_value)
    ELSE IF cell_ref_regex(trimmed_expr) # None
    THEN eval_cell_ref(unwrap(cell_ref_regex(trimmed_expr)), rows, cols, res0,
                       sheet, cell, call_value)
    ELSE Outcome(-1, res0, sheet, 0)

evaluate_expression(expr, rows, cols, sheet, res0, cell, call_value) ==
    evaluate_trimmed(expr, trim(expr), rows, cols, sheet, res0, cell, call_value)

(* ------------------------------------------------------------------ *)
(* State                                                               *)
(* ------------------------------------------------------------------ *)
VARIABLES
    sheet,        \* sheet_data.sheet: cell -> [val, expression, status, dependencies, dependents]
    START_ROW,    \* viewport origin (static mut START_ROW)
    START_COL,    \* viewport origin (static mut START_COL)
    FLAG,         \* output flag (static mut FLAG)
    ret,          \* the code the last execute_command call returned
    codec,        \* the last label handed to the label functions, and what they returned
    avl,          \* a tree built on its own: its root, the cells it should hold, the last call
    walk,         \* a traversal of the edges followed pass by pass: its frames and marks
    grid          \* the statics R and C as main sets them from its arguments

vars == <<sheet, START_ROW, START_COL, FLAG, ret, overflow_checks, codec, avl, walk, grid>>

(* Cell::new(0, "", 0) *)
NewCell == [val |-> 0, expression |-> <<>>, status |-> 0,
            dependencies |-> Nil, dependents |-> <<>>]

(* SheetData::new(rows, cols) *)
NewSheet == [cell \in Cells |-> NewCell]

(* ------------------------------------------------------------------ *)
(* Recomputation and execute_command (sheet.rs 473-488, 1471-1620)     *)
(* ------------------------------------------------------------------ *)
(* variant: the Err arm stores the result variable as well *)
store_recomputed_result(out, cell) ==
    IF out.code \in {0, 1}
    THEN [out.sheet EXCEPT ![cell].val = out.result, ![cell].status = 0]
    ELSE IF out.code = -2
    THEN [out.sheet EXCEPT ![cell].val = out.result, ![cell].status = 1]
    ELSE out.sheet

(* one arm of the match on a dependent's re-evaluation *)
store_recomputed(out, cell) ==
    IF out.code \in {0, 1}
    THEN [out.sheet EXCEPT ![cell].val = out.result, ![cell].status = 0]
    ELSE IF out.code = -2 THEN [out.sheet EXCEPT ![cell].status = 1]
    ELSE out.sheet

(* `while let Some(dep_cell) = pop(&mut stack)`: the sheet the loop   *)
(* leaves, and whether a re-evaluation panicked and ended it           *)
RECURSIVE recompute(_, _, _, _)
RECURSIVE recompute_cell(_, _, _, _)
recompute_cell(out, stack, rows, cols) ==
    IF out.code = PANIC THEN [sheet |-> out.sheet, panicked |-> TRUE]
    ELSE recompute(pop(stack), rows, cols, store_recomputed(out, Head(stack)))

recompute(stack, rows, cols, sh) ==
    IF stack = <<>> THEN [sheet |-> sh, panicked |-> FALSE]
    ELSE recompute_cell(evaluate_expression(sh[Head(stack)].expression, rows, cols, sh, 0,
                                            Head(stack), 0),
                        stack, rows, cols)

(* variant: the writer is updated whatever the code *)
install_unconditional(out, cell, expr) ==
    [out.sheet EXCEPT ![cell].val = out.result,
                      ![cell].expression = trim(expr),
                      ![cell].status = IF out.code = -2 THEN 1 ELSE 0]

(* what the writer cell receives for the code evaluate_expression returned *)
install(out, cell, expr) ==
    IF out.code \in {0, 1}
    THEN [out.sheet EXCEPT ![cell].val = out.result,
                           ![cell].expression = trim(expr),
                           ![cell].status = 0]
    ELSE IF out.code = -2
    THEN [out.sheet EXCEPT ![cell].expression = trim(expr), ![cell].status = 1]
    ELSE out.sheet

(* variant: the dependents are recomputed in the reverse of the order  *)
(* the stack gives                                                     *)
propagate_reversed(installed, cell, rows, cols) ==
    recompute([i \in 1 .. Len(pop(topological_sort_from_cell(cell, installed))) |->
                  pop(topological_sort_from_cell(cell, installed))
                      [Len(pop(topological_sort_from_cell(cell, installed))) + 1 - i]],
              rows, cols, installed)

(* the dependents of the writer, recomputed in topological order *)
propagate(installed, cell, rows, cols) ==
    recompute(pop(topological_sort_from_cell(cell, installed)), rows, cols, installed)

(* the match on the code evaluate_expression returned: [ret, sheet];   *)
(* ret is PANIC when the evaluation or a re-evaluation panicked        *)
assign_propagated(code, recomputed) ==
    [ret |-> IF recomputed.panicked THEN PANIC ELSE IF code = -2 THEN -2 ELSE 0,
     sheet |-> recomputed.sheet]

assign_code(code, installed, cell, rows, cols) ==
    IF code \in {0, 1, -2}
    THEN assign_propagated(code, propagate(installed, cell, rows, cols))
    ELSE [ret |-> code, sheet |-> installed]

assign_outcome(out, cell, expr, rows, cols) ==
    assign_code(out.code, install(out, cell, expr), cell, rows, cols)

(* the assignment to the cell the label names *)
assign_cell(rc, expr, rows, cols, sh) ==
    IF rc = None THEN [ret |-> -1, sheet |-> sh]
    ELSE IF unwrap(rc)[1] >= rows \/ unwrap(rc)[2] >= cols THEN [ret |-> -1, sheet |-> sh]
    ELSE assign_outcome(evaluate_expression(trim(expr), rows, cols, sh, 0, unwrap(rc), 1),
                        unwrap(rc), expr, rows, cols)

(* the assignment arm: [ret, sheet] *)
assign(label, expr, rows, cols, sh) ==
    assign_cell(label_to_index(trim(label)), expr, rows, cols, sh)

(* variant: s and d move by a block whatever the size of the grid *)
scroll_unchecked(line, rows, cols, sr, sc) ==
    IF line = <<"w">> THEN <<IF sr >= 10 THEN sr - 10 ELSE 0, sc>>
    ELSE IF line = <<"s">> THEN <<sr + 10, sc>>
    ELSE IF line = <<"a">> THEN <<sr, IF sc >= 10 THEN sc - 10 ELSE 0>>
    ELSE IF line = <<"d">> THEN <<sr, sc + 10>>
    ELSE <<sr, sc>>

(* scroll: the new <<START_ROW, START_COL>>; rows and cols are the      *)
(* statics R and C, which main hands to execute_command as well         *)
scroll(line, rows, cols, sr, sc) ==
    IF line = <<"w">> THEN <<IF sr >= 10 THEN sr - 10 ELSE 0, sc>>
    ELSE IF line = <<"s">>
         THEN <<IF sr + 20 <= rows - 1 THEN sr + 10
                ELSE (IF rows >= 10 THEN rows - 10 ELSE 0), sc>>
    ELSE IF line = <<"a">> THEN <<sr, IF sc >= 10 THEN sc - 10 ELSE 0>>
    ELSE IF line = <<"d">>
         THEN <<sr, IF sc + 20 <= cols - 1 THEN sc + 10
                    ELSE (IF cols >= 10 THEN cols - 10 ELSE 0)>>
    ELSE <<sr, sc>>

(* variant: the origin is assigned before the bounds are checked *)
scroll_row_early(body, col, rows, cols, sr, sc) ==
    IF body = <<>> \/ DigitRun(body) # Len(body) THEN [ret |-> -1, row |-> sr, col |-> sc]
    ELSE [ret |-> IF col >= cols \/ (IF DecValue(body) >= 1 THEN DecValue(body) - 1 ELSE 0) >= rows
                  THEN -1 ELSE 0,
          row |-> IF DecValue(body) >= 1 THEN DecValue(body) - 1 ELSE 0,
          col |-> col]

(* str::parse::<usize>() of the row: an optional "+" and at least one digit *)
scroll_row(body, col, rows, cols, sr, sc) ==
    IF body = <<>> \/ DigitRun(body) # Len(body) THEN [ret |-> -1, row |-> sr, col |-> sc]
    ELSE IF col >= cols \/ (IF DecValue(body) >= 1 THEN DecValue(body) - 1 ELSE 0) >= rows
    THEN [ret |-> -1, row |-> sr, col |-> sc]
    ELSE [ret |-> 0, row |-> IF DecValue(body) >= 1 THEN DecValue(body) - 1 ELSE 0,
          col |-> col]

(* the column label and the row text of the target *)
scroll_split(col_label, row_str, rows, cols, sr, sc) ==
    IF row_str # <<>> /\ row_str[1] = "0" THEN [ret |-> -1, row |-> sr, col |-> sc]
    ELSE IF col_label_to_index(col_label) = None THEN [ret |-> -1, row |-> sr, col |-> sc]
    ELSE scroll_row(IF row_str # <<>> /\ row_str[1] = "+" THEN Tail(row_str) ELSE row_str,
                    unwrap(col_label_to_index(col_label)), rows, cols, sr, sc)

(* captures.find(|c| c.is_ascii_digit()).unwrap_or(0), 0-based *)
digit_position(captures) ==
    IF \E i \in 1 .. Len(captures) : is_ascii_digit(captures[i])
    THEN (CHOOSE i \in 1 .. Len(captures) :
              /\ is_ascii_digit(captures[i])
              /\ \A j \in 1 .. i - 1 : ~is_ascii_digit(captures[j])) - 1
    ELSE 0

(* the scroll_to arm: [ret, row, col] *)
scroll_to(captures, rows, cols, sr, sc) ==
    scroll_split(TakeFirst(captures, digit_position(captures)),
                 DropFirst(captures, digit_position(captures)), rows, cols, sr, sc)

ScrollToPrefix == <<"s","c","r","o","l","l","_","t","o"," ">>
DisableOutput == <<"d","i","s","a","b","l","e","_","o","u","t","p","u","t">>
EnableOutput == <<"e","n","a","b","l","e","_","o","u","t","p","u","t">>

(* the result of the scroll_to arm *)
scrolled(st, sh, flag) ==
    [ret |-> st.ret, sheet |-> sh, row |-> st.row, col |-> st.col, flag |-> flag]

(* variant: an assignment that does not parse is reported as done *)
assigned_accepted(a, sr, sc, flag) ==
    [ret |-> IF a.ret = -1 THEN 0 ELSE a.ret, sheet |-> a.sheet,
     row |-> sr, col |-> sc, flag |-> flag]

(* the result of the assignment arm *)
assigned(a, sr, sc, flag) ==
    [ret |-> a.ret, sheet |-> a.sheet, row |-> sr, col |-> sc, flag |-> flag]

(* execute_command: [ret, sheet, row, col, flag] *)
execute_command(line, rows, cols, sh, sr, sc, flag) ==
    IF line = <<"q">> THEN [ret |-> 1, sheet |-> sh, row |-> sr, col |-> sc, flag |-> flag]
    ELSE IF line \in {<<"w">>, <<"s">>, <<"a">>, <<"d">>}
    THEN [ret |-> 0, sheet |-> sh, row |-> scroll(line, rows, cols, sr, sc)[1],
          col |-> scroll(line, rows, cols, sr, sc)[2], flag |-> flag]
    ELSE IF line = DisableOutput
    THEN [ret |-> 0, sheet |-> sh, row |-> sr, col |-> sc, flag |-> 0]
    ELSE IF line = EnableOutput
    THEN [ret |-> 0, sheet |-> sh, row |-> sr, col |-> sc, flag |-> 1]
    ELSE IF starts_with(line, ScrollToPrefix)
    THEN scrolled(scroll_to(DropFirst(line, 10), rows, cols, sr, sc), sh, flag)
    ELSE IF find_char(line, "=") # 0
    THEN assigned(assign(TakeFirst(line, find_char(line, "=") - 1),
                         DropFirst(line, find_char(line, "=")), rows, cols, sh),
                  sr, sc, flag)
    ELSE [ret |-> -1, sheet |-> sh, row |-> sr, col |-> sc, flag |-> flag]

(* ------------------------------------------------------------------ *)
(* Command lines given to the program                                  *)
(* ------------------------------------------------------------------ *)
LabelA1 == <<"A","1">>
LabelB1 == <<"B","1">>
LabelC1 == <<"C","1">>
LabelD1 == <<"D","1">>
One == <<"1">>
Zero == <<"0">>
SUM == <<"S","U","M">>

Line(label, expr) == label \o <<"=">> \o expr
Fn(name, from, to) == name \o <<"(">> \o from \o <<":">> \o to \o <<")">>
Bin(a, op, b) == a \o <<op>> \o b
Sleep(arg) == <<"S","L","E","E","P","(">> \o arg \o <<")">>

(* assignments that can be accepted *)
FormulaLines ==
    { Line(LabelA1, One), Line(LabelA1, <<" ">> \o Bin(One, "/", Zero)), Line(LabelA1, LabelB1),
      Line(LabelA1, Bin(LabelB1, "+", LabelC1)), Line(LabelA1, Fn(SUM, LabelB1, LabelC1)),
      Line(LabelB1, LabelA1), Line(LabelB1, LabelC1), Line(LabelB1, Sleep(Zero)),
      Line(LabelC1, LabelA1),
      Line(LabelD1, LabelA1) }

(* assignments whose formula reads the cell it is assigned to *)
SelfLines ==
    { Line(LabelA1, LabelA1), Line(LabelA1, Sleep(LabelA1)), Line(LabelA1, Bin(LabelA1, "+", One)),
      Line(LabelA1, Bin(One, "/", LabelA1)), Line(LabelA1, Bin(LabelA1, "/", Zero)),
      Line(LabelA1, Fn(SUM, LabelA1, LabelB1)), Line(LabelB1, Fn(SUM, LabelA1, LabelC1)) }

(* lines that do not parse *)
BadLines ==
    { Line(<<"a","1">>, One), Line(<<"A","0">>, One), Line(LabelA1, <<"1",".","5">>),
      Line(LabelA1, <<"Z","9">>), Line(LabelA1, Bin(LabelB1, "+", <<"Z","9">>)),
      Line(LabelA1, Fn(SUM, LabelC1, LabelB1)), <<"A","1">>, ScrollToPrefix \o <<"Z","9">> }

(* a move of the viewport *)
ScrollLines == { ScrollToPrefix \o LabelB1 }

CommandLines == FormulaLines \cup SelfLines \cup BadLines \cup ScrollLines

(* ------------------------------------------------------------------ *)
(* Specification                                                       *)
(* ------------------------------------------------------------------ *)
(* no label was handed to the label functions on their own *)
NoLabel == [index |-> None, text |-> <<>>, parsed |-> None, col |-> None]

(* the empty tree, before any call *)
NoTree == [root |-> Nil, members |-> {}, last |-> "none"]

(* no traversal is under way *)
Idle == [fn |-> "idle", start |-> <<>>, target |-> <<>>, frames |-> <<>>, visited |-> {},
         found |-> FALSE, result |-> <<>>, done |-> FALSE]

Init ==
    /\ sheet = NewSheet
    /\ START_ROW = 0
    /\ START_COL = 0
    /\ FLAG = 1
    /\ ret = 0
    /\ overflow_checks \in BOOLEAN
    /\ codec = NoLabel
    /\ avl = NoTree
    /\ walk = Idle
    /\ grid = [rows |-> R, cols |-> C]

Run(line) == execute_command(line, R, C, sheet, START_ROW, START_COL, FLAG)

(* the caller keeps what execute_command returned and left behind; a  *)
(* call that panicked leaves no program state, and only the code is    *)
(* kept                                                                *)
Returned(o) ==
    /\ sheet' = IF o.ret = PANIC THEN sheet ELSE o.sheet
    /\ START_ROW' = o.row
    /\ START_COL' = o.col
    /\ FLAG' = o.flag
    /\ ret' = o.ret
    /\ UNCHANGED <<overflow_checks, codec, avl, walk, grid>>

(* `if status == 1 { break; }`: after q the loop is left, and a       *)
(* process that panicked takes no further command                      *)
Execute(line) == ret \notin {1, PANIC} /\ Returned(Run(line))

Command == \E line \in CommandLines : Execute(line)

Next == Command

Spec == Init /\ [][Next]_vars

(* ------------------------------------------------------------------ *)
(* Vocabulary of the properties                                        *)
(* ------------------------------------------------------------------ *)
(* the cell a label and a row number name (0-based) *)
CellOf(label, num) == <<parse_or_minus1(num) - 1, unwrap(col_label_to_index(label))>>

(* the cell a binary operand names, if it names one *)
OperandRefs(e) ==
    IF split_label_and_number(e) = None THEN {}
    ELSE {CellOf(unwrap(split_label_and_number(e))[1], unwrap(split_label_and_number(e))[2])}

IsBinary(t) ==
    /\ parse_i32(t) = None
    /\ sleep_regex_num(t) = None
    /\ sleep_regex_cell(t) = None
    /\ find_operator(t) # None

Operand1(t) == trim(TakeFirst(t, unwrap(find_operator(t))[1] - 1))
Operand2(t) == trim(DropFirst(t, unwrap(find_operator(t))[1]))

(* the cells of the grid a formula references, by the shape            *)
(* evaluate_expression recognises it as                                *)
Refs(expr) ==
    LET t == trim(expr) IN
    Cells \cap
    ( IF t = <<>> \/ parse_i32(t) # None \/ sleep_regex_num(t) # None THEN {}
      ELSE IF sleep_regex_cell(t) # None
      THEN {CellOf(unwrap(sleep_regex_cell(t))[1], unwrap(sleep_regex_cell(t))[2])}
      ELSE IF find_operator(t) # None
      THEN OperandRefs(Operand1(t)) \cup OperandRefs(Operand2(t))
      ELSE IF func_regex(t) # None
      THEN LET caps == unwrap(func_regex(t))
                from == CellOf(caps[2], caps[3])
                to == CellOf(caps[4], caps[5])
           IN  {c \in Cells : InRange(c, from[1], from[2], to[1], to[2])}
      ELSE IF cell_ref_regex(t) # None
      THEN {CellOf(unwrap(cell_ref_regex(t))[1], unwrap(cell_ref_regex(t))[2])}
      ELSE {} )

(* the value a binary operand has in sheet sh *)
OperandValue(e, sh) ==
    IF OperandRefs(e) # {} THEN sh[CHOOSE c \in OperandRefs(e) : TRUE].val
    ELSE parse_or_minus1(e)

(* the formula is a division whose divisor is 0 in sheet sh *)
DividesByZero(expr, sh) ==
    LET t == trim(expr) IN
    /\ IsBinary(t)
    /\ unwrap(find_operator(t))[2] = "/"
    /\ OperandRefs(Operand2(t)) \subseteq Cells
    /\ OperandValue(Operand2(t), sh) = 0

(* X |-> the cells recorded as reading X *)
ReadersOf(sh) == [x \in Cells |-> TreeCells(sh[x].dependencies)]

(* W |-> the cells the stored formula of W references *)
RefsOf(sh) == [w \in Cells |-> Refs(sh[w].expression)]

(* the cells reached from the set S along next in at most n further steps *)
RECURSIVE Reach(_, _, _)
Reach(S, next, n) ==
    IF n = 0 THEN S
    ELSE Reach(S \cup UNION {next[c] : c \in S}, next, n - 1)

Reachable(c, next) == Reach(next[c], next, Cardinality(Cells))

Cyclic(next) == \E c \in Cells : c \in Reachable(c, next)

(* the writer and the formula of an assignment line *)
HasTarget(line) ==
    /\ find_char(line, "=") # 0
    /\ label_to_index(trim(TakeFirst(line, find_char(line, "=") - 1))) # None
    /\ unwrap(label_to_index(trim(TakeFirst(line, find_char(line, "=") - 1)))) \in Cells

Target(line) == unwrap(label_to_index(trim(TakeFirst(line, find_char(line, "=") - 1))))
Formula(line) == DropFirst(line, find_char(line, "="))

(* the line names a cell of the grid and its formula has one of the    *)
(* shapes of the grammar: on an empty sheet it is not a parse error    *)
WellFormed(line) ==
    /\ HasTarget(line)
    /\ execute_command(line, R, C, NewSheet, 0, 0, 1).ret # -1

TargetLines == {line \in CommandLines : HasTarget(line)}
WellFormedLines == {line \in CommandLines : WellFormed(line)}
LineTarget == [line \in TargetLines |-> Target(line)]
LineRefs == [line \in TargetLines |-> Refs(Formula(line))]

(* ------------------------------------------------------------------ *)
(* Properties                                                          *)
(* ------------------------------------------------------------------ *)
(* C1: after any sequence of commands the recorded read graph is       *)
(* acyclic: following the dependencies sets from a cell never leads    *)
(* back to it, and no stored formula transitively references its own   *)
(* cell.                                                               *)
C1_Acyclic ==
    /\ ~Cyclic(ReadersOf(sheet))
    /\ ~Cyclic(RefsOf(sheet))

(* C2: every Ok cell with a formula holds the value its formula has:   *)
(* re-evaluating it in recompute-only mode returns 0 and yields val.   *)
C2_ValueConsistent ==
    \A y \in Cells :
        (sheet[y].status = 0 /\ sheet[y].expression # <<>>) =>
            LET out == evaluate_expression(sheet[y].expression, R, C, sheet, 0, y, 0)
            IN  out.code = 0 /\ out.result = sheet[y].val

(* C3: the two edge indexes agree: W is in X.dependencies exactly when *)
(* X occurs in W.dependents.                                           *)
C3_IndexSymmetry ==
    \A x \in Cells, w \in Cells :
        (w \in TreeCells(sheet[x].dependencies))
            <=> (\E i \in 1 .. Len(sheet[w].dependents) : sheet[w].dependents[i] = x)

(* C4: whenever execute_command returns -1 or -4 the whole state is    *)
(* what it was before the call: every cell's val, expression, status,  *)
(* dependencies and dependents, and the viewport origin.               *)
C4_RejectedLeavesState ==
    [][ret' \in {-1, -4} => UNCHANGED <<sheet, START_ROW, START_COL>>]_vars

(* a cycle rejection on a sheet that holds formulas and edges *)
C4_Witness ==
    /\ ret = -4
    /\ START_COL # 0
    /\ \E c \in Cells : sheet[c].dependents # <<>> /\ sheet[c].val # 0

(* C5: an assignment W=EXPR is rejected with -4 only when EXPR         *)
(* references W or references a cell whose stored formula transitively *)
(* references W.                                                       *)
C5_RejectOnlyRealCycle ==
    \A line \in TargetLines :
        Run(line).ret = -4 =>
            \/ LineTarget[line] \in LineRefs[line]
            \/ \E x \in LineRefs[line] : LineTarget[line] \in Reachable(x, RefsOf(sheet))

(* C6: if the stored formula of B references A, an assignment to A     *)
(* whose formula references B (in any shape, aggregates included)      *)
(* returns -4 and installs nothing.                                    *)
C6_BackReferenceRejected ==
    \A line \in WellFormedLines :
        \A b \in LineRefs[line] :
            LineTarget[line] \in Refs(sheet[b].expression) =>
                Run(line).ret = -4 /\ Run(line).sheet = sheet

(* C7: an assignment whose formula references its own cell returns -4  *)
(* in every shape: W=W, W=SLEEP(W), W as either operand of a binary    *)
(* formula (also one that divides by zero), W inside an aggregate.     *)
C7_SelfReferenceRejected ==
    \A line \in WellFormedLines :
        LineTarget[line] \in LineRefs[line] => Run(line).ret = -4

(* every self-referencing shape is offered to a sheet in which the     *)
(* writer already has a formula, a value and readers                   *)
C7_Witness ==
    /\ sheet[<<0, 0>>].val # 0
    /\ sheet[<<0, 0>>].dependencies # Nil
    /\ sheet[<<0, 1>>].dependencies # Nil
    /\ \A line \in SelfLines :
           LineTarget[line] \in LineRefs[line] /\ Run(line).ret = -4

(* C8: every Err cell has a cause: its formula is a division whose     *)
(* divisor is currently 0, or a cell its formula references is Err.    *)
C8_ErrHasCause ==
    \A y \in Cells :
        sheet[y].status = 1 =>
            \/ DividesByZero(sheet[y].expression, sheet)
            \/ \E x \in Refs(sheet[y].expression) : sheet[x].status = 1

(* C9: no Ok cell reads an Err cell: every cell referenced by the      *)
(* formula of an Ok cell is Ok, and the formula does not divide by a   *)
(* value that is currently 0.                                          *)
C9_OkReadsOnlyOk ==
    \A y \in Cells :
        (sheet[y].status = 0 /\ sheet[y].expression # <<>>) =>
            /\ \A x \in Refs(sheet[y].expression) : sheet[x].status = 0
            /\ ~DividesByZero(sheet[y].expression, sheet)

(* the evaluation of the line divides by zero or reads an Err cell *)
Faulty(line) ==
    \/ DividesByZero(Formula(line), sheet)
    \/ \E x \in LineRefs[line] : sheet[x].status = 1

(* the assignment would close a cycle of references *)
ClosesCycle(line) ==
    \/ LineTarget[line] \in LineRefs[line]
    \/ \E x \in LineRefs[line] : LineTarget[line] \in Reachable(x, RefsOf(sheet))

(* what a -2 assignment leaves behind *)
InstalledAsErr(line, after) ==
    /\ after[LineTarget[line]].expression = trim(Formula(line))
    /\ after[LineTarget[line]].status = 1
    /\ after[LineTarget[line]].val = sheet[LineTarget[line]].val
    /\ \A x \in LineRefs[line] :
           LineTarget[line] \in TreeCells(after[x].dependencies)

(* C10: an assignment whose evaluation divides by zero or reads an Err *)
(* cell, and closes no cycle, returns -2 and still installs the        *)
(* formula: the expression is the trimmed text, the status 1, the      *)
(* value unchanged, and the writer is recorded as a reader of every    *)
(* cell the formula references.                                        *)
C10_ErrAssignmentInstalls ==
    \A line \in WellFormedLines :
        (Faulty(line) /\ ~ClosesCycle(line)) =>
            Run(line).ret = -2 /\ InstalledAsErr(line, Run(line).sheet)

(* the cells whose stored formula transitively references w in sheet sh *)
Downstream(w, sh) == {y \in Cells : w \in Reachable(y, RefsOf(sh))}

(* C11: after an assignment to W that returns -2, every cell whose     *)
(* stored formula transitively references W has status 1 when the      *)
(* command returns.                                                    *)
C11_TaintReachesDownstream ==
    \A line \in WellFormedLines :
        Run(line).ret = -2 =>
            \A y \in Downstream(LineTarget[line], Run(line).sheet) :
                Run(line).sheet[y].status = 1

(* y or a cell y transitively references fails for a reason other than *)
(* the cell s: its formula divides by zero, or it is an Err cell that  *)
(* does not read s                                                     *)
OtherFailingInput(y, s, sh) ==
    \E x \in {y} \cup Reachable(y, RefsOf(sh)) :
        \/ DividesByZero(sh[x].expression, sh)
        \/ (x # s /\ x \notin Downstream(s, sh) /\ sh[x].status = 1)

(* y is Ok in sh and holds the value of its formula on sh *)
Repaired(y, sh) ==
    /\ sh[y].status = 0
    /\ evaluate_expression(sh[y].expression, R, C, sh, 0, y, 0).code = 0
    /\ evaluate_expression(sh[y].expression, R, C, sh, 0, y, 0).result = sh[y].val

(* C12: when an Err cell S is assigned a formula that evaluates Ok,    *)
(* every cell that transitively reads S and has no other failing input *)
(* is Ok when the command returns, with the value of its formula on    *)
(* the new grid.                                                       *)
C12_RepairReachesDownstream ==
    \A line \in WellFormedLines :
        (sheet[LineTarget[line]].status = 1 /\ Run(line).ret = 0) =>
            \A y \in Downstream(LineTarget[line], Run(line).sheet) :
                ~OtherFailingInput(y, LineTarget[line], Run(line).sheet) =>
                    Repaired(y, Run(line).sheet)

(* the grid state of sheet sh: val, expression, status and the         *)
(* recorded reader set of every cell                                   *)
GridState(sh) ==
    [c \in Cells |-> <<sh[c].val, sh[c].expression, sh[c].status,
                       TreeCells(sh[c].dependencies)>>]

(* what execute_command returns when the line is given once more to   *)
(* the state o that its first execution left                           *)
Again(line, o) == execute_command(line, R, C, o.sheet, o.row, o.col, o.flag)

RunTwice(line) == Again(line, Run(line))

(* the second execution leaves the grid state of the first *)
SameGridAgain(line, o) == GridState(Again(line, o).sheet) = GridState(o.sheet)

RECURSIVE to_string(_)
to_string(n) ==
    IF n < 10 THEN <<Digits[n + 1]>>
    ELSE to_string(n \div 10) \o <<Digits[(n % 10) + 1]>>

(* the label that names a cell *)
CellLabel(cell) == col_index_to_label(cell[2]) \o to_string(cell[1] + 1)

MinText == <<"-","2","1","4","7","4","8","3","6","4","8">>
MaxText == <<"2","1","4","7","4","8","3","6","4","7">>
MinusOne == <<"-","1">>
Two == <<"2">>
Seven == <<"7">>

(* the literals A1 and B1 are loaded with, and whether an Err          *)
(* assignment follows                                                  *)
LoadsA1 == {<<MinText, FALSE>>, <<MinusOne, FALSE>>, <<Two, FALSE>>, <<MaxText, FALSE>>,
            <<MinusOne, TRUE>>}
LoadsB1 == {<<MinusOne, FALSE>>, <<Zero, FALSE>>, <<Two, FALSE>>, <<MaxText, FALSE>>,
            <<Zero, TRUE>>}

LabelA2 == <<"A","2">>
LabelB2 == <<"B","2">>
LabelC2 == <<"C","2">>

(* the cell `label=text` leaves, and the cell a following            *)
(* `label=1/0` makes of it: the -2 arm keeps val                       *)
LiteralCell(text) ==
    [NewCell EXCEPT !.val = unwrap(parse_i32(text)), !.expression = text]

ErrCell(text) ==
    [LiteralCell(text) EXCEPT !.expression = Bin(One, "/", Zero), !.status = 1]

Loaded(text, err) == IF err THEN ErrCell(text) ELSE LiteralCell(text)

(* the formulas assigned to D1 *)
AggregateLines ==
    { Line(LabelD1, Fn(f, LabelA1, LabelB2)) :
          f \in {SUM, <<"A","V","G">>, <<"M","A","X">>, <<"M","I","N">>} }

BinaryLines ==
    { Line(LabelD1, Bin(LabelA1, op, LabelB1)) : op \in {"+", "-", "*", "/"} }
    \cup { Line(LabelD1, Bin(LabelA1, "+", One)), Line(LabelD1, Bin(Seven, "/", LabelB1)) }

SleepLines ==
    { Line(LabelD1, Sleep(arg)) : arg \in {<<"3">>, <<"-","2">>, LabelA1, LabelB1} }

EvalLines == AggregateLines \cup BinaryLines \cup SleepLines

(* A1 and B1 loaded with a literal each, Ok or Err, and A2 with 7, by  *)
(* assignments to the sheet of a program just started                  *)
EvalInit ==
    /\ overflow_checks \in BOOLEAN
    /\ \E a \in LoadsA1, b \in LoadsB1 :
           sheet = [NewSheet EXCEPT ![<<0, 0>>] = Loaded(a[1], a[2]),
                                    ![<<0, 1>>] = Loaded(b[1], b[2]),
                                    ![<<1, 0>>] = LiteralCell(Seven)]
    /\ START_ROW = 0
    /\ START_COL = 0
    /\ FLAG = 1
    /\ ret = 0
    /\ codec = NoLabel
    /\ avl = NoTree
    /\ walk = Idle
    /\ grid = [rows |-> R, cols |-> C]

Evaluate == \E line \in EvalLines : Execute(line)

EvalNext == Evaluate

EvalSpec == EvalInit /\ [][EvalNext]_vars

(* the cell the formulas are evaluated for *)
Writer == <<0, 3>>

AVG == <<"A","V","G">>
MAX == <<"M","A","X">>
MIN == <<"M","I","N">>

(* the rectangles of the grid, by their corners *)
Rectangles ==
    {rect \in Cells \X Cells : rect[1][1] <= rect[2][1] /\ rect[1][2] <= rect[2][2]}

RectCells(rect) == RangeCells(rect[1][1], rect[1][2], rect[2][1], rect[2][2])

(* no cell of the rectangle is the cell w or reads it, directly or     *)
(* through other cells                                                 *)
NotReached(rect, w, sh) ==
    \A k \in 1 .. Len(RectCells(rect)) :
        /\ RectCells(rect)[k] # w
        /\ w \notin Reachable(RectCells(rect)[k], RefsOf(sh))

(* The integer sum of the vals of cells, which can lie outside the i32 *)
(* range, in two limbs: the sum is SumHi * 65536 + SumLo with          *)
(* 0 <= SumLo < 65536.                                                 *)
RECURSIVE HighSum(_, _)
HighSum(cells, sh) ==
    IF cells = <<>> THEN 0
    ELSE (sh[Head(cells)].val \div 65536) + HighSum(Tail(cells), sh)

RECURSIVE LowSum(_, _)
LowSum(cells, sh) ==
    IF cells = <<>> THEN 0
    ELSE (sh[Head(cells)].val % 65536) + LowSum(Tail(cells), sh)

SumHi(cells, sh) == HighSum(cells, sh) + (LowSum(cells, sh) \div 65536)
SumLo(cells, sh) == LowSum(cells, sh) % 65536

(* the i32 r is the integer hi * 65536 + lo *)
IsInteger(r, hi, lo) == r \div 65536 = hi /\ r % 65536 = lo

(* the i32 r is the quotient, truncated toward zero, of the integer    *)
(* hi * 65536 + lo by n > 0                                            *)
IsQuotient(r, hi, lo, n) ==
    IF hi < 0 /\ ((hi % n) * 65536 + lo) % n # 0
    THEN r > I32_MIN /\ IsInteger(r - 1, hi \div n, ((hi % n) * 65536 + lo) \div n)
    ELSE IsInteger(r, hi \div n, ((hi % n) * 65536 + lo) \div n)

Vals(cells, sh) == {sh[cells[k]].val : k \in 1 .. Len(cells)}

(* what the aggregate f over cells has to return *)
AggregateContract(f, cells, sh, out) ==
    /\ out.code = IF \E k \in 1 .. Len(cells) : sh[cells[k]].status = 1 THEN -2 ELSE 0
    /\ f = SUM => IsInteger(out.result, SumHi(cells, sh), SumLo(cells, sh))
    /\ f = AVG => IsQuotient(out.result, SumHi(cells, sh), SumLo(cells, sh), Len(cells))
    /\ f = MAX => out.result \in Vals(cells, sh) /\ \A v \in Vals(cells, sh) : v <= out.result
    /\ f = MIN => out.result \in Vals(cells, sh) /\ \A v \in Vals(cells, sh) : v >= out.result

(* C14: SUM, AVG, MAX and MIN over a valid rectangle no cell of which  *)
(* is or reads the writer return the sum of the vals, that sum divided *)
(* by the cell count and truncated toward zero, the largest and the    *)
(* smallest val; the code is -2 when a cell of the rectangle has       *)
(* status 1 and 0 otherwise.                                           *)
C14_AggregateValues ==
    \A f \in {SUM, AVG, MAX, MIN}, rect \in Rectangles, call_value \in {0, 1} :
        NotReached(rect, Writer, sheet) =>
            AggregateContract(f, RectCells(rect), sheet,
                evaluate_expression(Fn(f, CellLabel(rect[1]), CellLabel(rect[2])),
                                    R, C, sheet, 0, Writer, call_value))

(* the operands of the binary formulas: literals without a sign (a     *)
(* signed literal is not an operand of the grammar) and labels         *)
BinaryOperands == {Seven, Zero, MaxText, LabelA1, LabelB1, LabelD1}

(* the operand is an integer literal, or names a cell of the grid that *)
(* is Ok and neither is the cell w nor reads it                        *)
OperandOk(e, w, sh) ==
    IF OperandRefs(e) = {} THEN DigitRun(e) = Len(e) /\ parse_i32(e) # None
    ELSE \A x \in OperandRefs(e) :
             /\ x \in Cells
             /\ sh[x].status = 0
             /\ x # w
             /\ w \notin Reachable(x, RefsOf(sh))

(* the i32 r is the integer a + b, a - b, a * b *)
IsSum(r, a, b) ==
    IsInteger(r, (a \div 65536) + (b \div 65536) + (((a % 65536) + (b % 65536)) \div 65536),
              ((a % 65536) + (b % 65536)) % 65536)

IsDifference(r, a, b) ==
    IsInteger(r, (a \div 65536) - (b \div 65536) + (((a % 65536) - (b % 65536)) \div 65536),
              ((a % 65536) - (b % 65536)) % 65536)

IsProduct(r, a, b) ==
    IF a = 0 THEN r = 0
    ELSE IF a > 0 THEN r % a = 0 /\ r \div a = b
    ELSE IF a = I32_MIN THEN (b = 0 /\ r = 0) \/ (b = 1 /\ r = a)
    ELSE IF b = I32_MIN THEN FALSE
    ELSE r % (-a) = 0 /\ r \div (-a) = -b

(* a / b rounded toward zero, b > 0 *)
Quotient(a, b) == IF a < 0 /\ a % b # 0 THEN (a \div b) + 1 ELSE a \div b

(* the i32 r is a / b rounded toward zero, b # 0 *)
IsQuotientOf(r, a, b) ==
    IF b > 0 THEN r = Quotient(a, b)
    ELSE IF b = I32_MIN THEN r = (IF a = I32_MIN THEN 1 ELSE 0)
    ELSE r > I32_MIN /\ -r = Quotient(a, -b)

(* what the binary formula v1 op v2 has to return *)
BinaryContract(op, v1, v2, out) ==
    IF op = "/" /\ v2 = 0 THEN out.code = -2
    ELSE /\ out.code = 0
         /\ op = "+" => IsSum(out.result, v1, v2)
         /\ op = "-" => IsDifference(out.result, v1, v2)
         /\ op = "*" => IsProduct(out.result, v1, v2)
         /\ op = "/" => IsQuotientOf(out.result, v1, v2)

(* C15: a binary formula whose operands are integer literals or        *)
(* references to Ok cells of the grid that do not read the writer      *)
(* returns 0 with v1+v2, v1-v2, v1*v2 or v1/v2 truncated toward zero,  *)
(* and returns -2 exactly when the operator is / and v2 is 0.          *)
C15_BinaryArithmetic ==
    \A a \in BinaryOperands, b \in BinaryOperands :
        (OperandOk(a, Writer, sheet) /\ OperandOk(b, Writer, sheet)) =>
            \A op \in {"+", "-", "*", "/"}, call_value \in {0, 1} :
                BinaryContract(op, OperandValue(a, sheet), OperandValue(b, sheet),
                    evaluate_expression(Bin(a, op, b), R, C, sheet, 0, Writer, call_value))

(* integer literals with the integers they denote *)
SleepLiterals ==
    { <<<<"3">>, 3>>, <<<<"-","2">>, -2>>, <<Zero, 0>>, <<<<"-","0">>, 0>>,
      <<<<"0","4","2">>, 42>>, <<MaxText, I32_MAX>>, <<MinText, I32_MIN>> }

(* C16: for an integer literal n, SLEEP(n) evaluates to code 0 with    *)
(* result n; the thread sleeps n seconds when n >= 0 and does not      *)
(* sleep when n < 0.                                                   *)
C16_SleepLiteral ==
    \A lit \in SleepLiterals, call_value \in {0, 1} :
        /\ evaluate_expression(Sleep(lit[1]), R, C, sheet, 0, Writer, call_value).code = 0
        /\ evaluate_expression(Sleep(lit[1]), R, C, sheet, 0, Writer, call_value).result = lit[2]
        /\ evaluate_expression(Sleep(lit[1]), R, C, sheet, 0, Writer, call_value).slept
               = IF lit[2] >= 0 THEN lit[2] ELSE 0

(* SLEEP(-2) was assigned to the writer and accepted with value -2 *)
C16_Witness ==
    /\ ret = 0
    /\ sheet[Writer].expression = Sleep(<<"-","2">>)
    /\ sheet[Writer].val = -2
    /\ sheet[Writer].status = 0

(* what SLEEP(Ref) has to return for the writer w and the cell x Ref   *)
(* names, and leave behind in Bind mode                                *)
SleepRefContract(x, w, sh, out, call_value) ==
    /\ out.result = sh[x].val
    /\ out.code = IF sh[x].status = 1 THEN -2 ELSE 0
    /\ out.slept = IF sh[x].status = 1 \/ sh[x].val < 0 THEN 0 ELSE sh[x].val
    /\ call_value = 1 => w \in TreeCells(out.sheet[x].dependencies)

(* C17: SLEEP(Ref), for a cell of the grid that is not the writer and  *)
(* does not read it, yields the val of the cell; the code is -2 and    *)
(* nothing is slept when the cell has status 1, the code is 0 and      *)
(* nothing is slept when the val is negative, and otherwise val        *)
(* seconds are slept and the code is 0; in Bind mode the writer is     *)
(* recorded as a reader of the cell in all three cases.                *)
C17_SleepReference ==
    \A x \in Cells, w \in Cells, call_value \in {0, 1} :
        (x # w /\ w \notin Reachable(x, RefsOf(sheet))) =>
            SleepRefContract(x, w, sheet,
                evaluate_expression(Sleep(CellLabel(x)), R, C, sheet, 0, w, call_value),
                call_value)

(* ------------------------------------------------------------------ *)
(* The label functions on their own                                    *)
(* ------------------------------------------------------------------ *)
(* the largest grid main accepts *)
MAX_ROWS == 999
MAX_COLS == 18278

(* the longest text typed, and the characters it is typed from *)
MaxLen == 6
LabelChars == {"A", "Z", "0", "7", "a", "-"}

(* rows tried with every column, and columns tried with every row: the *)
(* first and the last index of each length of the row number and of    *)
(* the column letters                                                  *)
RowSamples == {0, 8, 9, 98, 99, MAX_ROWS - 1}
ColSamples == {0, 25, 26, 701, 702, MAX_COLS - 1}

(* label_to_index applied to a text *)
Parsed(text) ==
    [index |-> None, text |-> text, parsed |-> label_to_index(text), col |-> None]

(* col_index_to_label applied to col, then label_to_index to the label *)
(* completed with the row number, and col_label_to_index to the        *)
(* letters                                                             *)
Formatted(row, col, letters) ==
    [index |-> Some(<<row, col>>), text |-> letters \o to_string(row + 1),
     parsed |-> label_to_index(letters \o to_string(row + 1)),
     col |-> col_label_to_index(letters)]

CodecInit ==
    /\ sheet = NewSheet
    /\ START_ROW = 0
    /\ START_COL = 0
    /\ FLAG = 1
    /\ ret = 0
    /\ overflow_checks = FALSE
    /\ codec = Parsed(<<>>)
    /\ avl = NoTree
    /\ walk = Idle
    /\ grid = [rows |-> R, cols |-> C]

(* one more character is typed and the text is parsed *)
TypeChar ==
    /\ codec.index = None
    /\ Len(codec.text) < MaxLen
    /\ \E ch \in LabelChars : codec' = Parsed(Append(codec.text, ch))
    /\ UNCHANGED <<sheet, START_ROW, START_COL, FLAG, ret, overflow_checks, avl, walk, grid>>

(* the label of a cell is formatted and parsed back *)
Format ==
    /\ codec = Parsed(<<>>)
    /\ \E row \in 0 .. MAX_ROWS - 1, col \in 0 .. MAX_COLS - 1 :
           /\ row \in RowSamples \/ col \in ColSamples
           /\ codec' = Formatted(row, col, col_index_to_label(col))
    /\ UNCHANGED <<sheet, START_ROW, START_COL, FLAG, ret, overflow_checks, avl, walk, grid>>

CodecNext == TypeChar \/ Format

CodecSpec == CodecInit /\ [][CodecNext]_vars

(* C18: for a row in 0..998 and a column in 0..18277, label_to_index   *)
(* of col_index_to_label(col) followed by the decimal of row + 1 is    *)
(* (row, col), and col_label_to_index of col_index_to_label(col) is    *)
(* col.                                                                *)
C18_LabelRoundTrip ==
    codec.index # None =>
        /\ codec.parsed = codec.index
        /\ codec.col = Some(unwrap(codec.index)[2])

(* the label of row 998 and column 18277, ZZZ999, was formatted *)
C18_Witness ==
    /\ codec.index = Some(<<MAX_ROWS - 1, MAX_COLS - 1>>)
    /\ codec.text = <<"Z","Z","Z","9","9","9">>
    /\ codec.parsed = Some(<<MAX_ROWS - 1, MAX_COLS - 1>>)

(* 1 to 3 uppercase letters followed by 1 to 3 digits, the first of    *)
(* which is not 0                                                      *)
WellShaped(text) ==
    \E nl \in 1 .. 3, nd \in 1 .. 3 :
        /\ Len(text) = nl + nd
        /\ \A i \in 1 .. nl : \E k \in 1 .. 26 : text[i] = Letters[k]
        /\ \A i \in nl + 1 .. nl + nd : \E k \in 1 .. 10 : text[i] = Digits[k]
        /\ text[nl + 1] # "0"

(* C19: label_to_index returns Some exactly for 1 to 3 uppercase       *)
(* letters followed by 1 to 3 digits the first of which is not 0, and  *)
(* None for every other text: the empty one, lowercase letters, a row  *)
(* number that is 0 or starts with 0, digits before or between the     *)
(* letters, letters only, digits only, another character, more than 3  *)
(* letters or more than 3 digits.                                      *)
C19_LabelShape == (codec.parsed # None) <=> WellShaped(codec.text)

(* AZ70 was typed and parsed as row 69, column 51 *)
C19_Witness ==
    /\ codec.index = None
    /\ codec.text = <<"A","Z","7","0">>
    /\ codec.parsed = Some(<<69, 51>>)

(* ------------------------------------------------------------------ *)
(* The dispatch of execute_command                                     *)
(* ------------------------------------------------------------------ *)
Quit == <<"q">>
FixedLines == {<<"w">>, <<"a">>, <<"s">>, <<"d">>, EnableOutput, DisableOutput}

(* assignments whose left side names no cell of a small grid *)
BadTargetLines ==
    { Line(<<"a","1">>, One), Line(<<"A","0">>, One), Line(<<"E","1">>, One),
      Line(<<"A","3">>, One), Line(<<"Z","9">>, One), Line(<<>>, One),
      Line(<<"A","A","A","A","1">>, One), Line(<<"1","A">>, One),
      Line(<<"A"," ","1">>, One), Line(<<"q">>, One) }

(* lines that are no command and no assignment *)
UnknownLines ==
    { <<>>, LabelA1, <<"x">>, <<"W">>, <<"q"," ">>, <<" ","q">>, <<"q","u","i","t">>,
      <<"s","c","r","o","l","l","_","t","o">>, Fn(SUM, LabelA1, LabelB1),
      <<"e","n","a","b","l","e">> }

(* lines that are carried out *)
GoodLines ==
    { Line(LabelA1, One), Line(LabelB1, LabelA1), Line(<<" ","A","2"," ">>, Two),
      ScrollToPrefix \o LabelB1, ScrollToPrefix \o LabelA2 }

DispatchLines ==
    {Quit} \cup FixedLines \cup BadTargetLines \cup UnknownLines \cup GoodLines

DispatchInit == Init

Dispatch == \E line \in DispatchLines : Execute(line)

DispatchNext == Dispatch

DispatchSpec == DispatchInit /\ [][DispatchNext]_vars

(* the text before the first = of a line, without the blanks around it *)
LeftSide(line) == trim(TakeFirst(line, find_char(line, "=") - 1))

(* the labels of the cells of the grid *)
GridLabels == {CellLabel(cell) : cell \in Cells}

(* C20: q returns 1; w, a, s, d, enable_output and disable_output      *)
(* return 0; an assignment whose left side is not the label of a cell  *)
(* of the grid returns -1; and a line that is none of the fixed        *)
(* commands, does not start with `scroll_to ` and has no = returns -1. *)
C20_DispatchTable ==
    \A line \in DispatchLines :
        /\ line = Quit => Run(line).ret = 1
        /\ line \in FixedLines => Run(line).ret = 0
        /\ (find_char(line, "=") # 0 /\ LeftSide(line) \notin GridLabels) => Run(line).ret = -1
        /\ ( /\ line \notin {Quit} \cup FixedLines
             /\ ~starts_with(line, ScrollToPrefix)
             /\ find_char(line, "=") = 0 ) => Run(line).ret = -1

(* q was given after disable_output and an accepted assignment *)
C20_Witness ==
    /\ ret = 1
    /\ FLAG = 0
    /\ sheet[<<0, 0>>].val = 1

(* ------------------------------------------------------------------ *)
(* The viewport                                                        *)
(* ------------------------------------------------------------------ *)
(* the viewport origin a line leaves behind *)
RowAfter(line) == Run(line).row
ColAfter(line) == Run(line).col

(* the largest move of one viewport command *)
Block == 10

(* C21: from every reachable viewport origin w never increases         *)
(* START_ROW, s never decreases START_ROW, a never increases           *)
(* START_COL, d never decreases START_COL, and each of them moves its  *)
(* coordinate by at most 10.                                           *)
C21_ViewportMonotone ==
    /\ RowAfter(<<"w">>) <= START_ROW /\ START_ROW - RowAfter(<<"w">>) <= Block
    /\ RowAfter(<<"s">>) >= START_ROW /\ RowAfter(<<"s">>) - START_ROW <= Block
    /\ ColAfter(<<"a">>) <= START_COL /\ START_COL - ColAfter(<<"a">>) <= Block
    /\ ColAfter(<<"d">>) >= START_COL /\ ColAfter(<<"d">>) - START_COL <= Block

(* scroll_to lines that are carried out *)
MovingLines ==
    { ScrollToPrefix \o LabelB1, ScrollToPrefix \o LabelA2, ScrollToPrefix \o <<"D","2">> }

(* scroll_to lines that are refused: no cell of the grid, a row that   *)
(* starts with 0, a lowercase column, no row, no column                *)
RefusedLines ==
    { ScrollToPrefix \o <<"Z","9">>, ScrollToPrefix \o <<"A","9">>,
      ScrollToPrefix \o <<"A","0">>, ScrollToPrefix \o <<"a","1">>,
      ScrollToPrefix \o <<"A">>, ScrollToPrefix \o <<"1">>, ScrollToPrefix }

(* the commands that only present the sheet *)
PresentLines == {Quit} \cup FixedLines \cup MovingLines \cup RefusedLines

(* assignments that fill the sheet with values, formulas and edges *)
FillLines ==
    { Line(LabelA1, Seven), Line(LabelB1, LabelA1),
      Line(LabelC1, Fn(SUM, LabelA1, LabelB2)), Line(LabelA2, Bin(One, "/", Zero)) }

ViewLines == PresentLines \cup FillLines

ViewInit == Init

View == \E line \in ViewLines : Execute(line)

ViewNext == View

ViewSpec == ViewInit /\ [][ViewNext]_vars

(* C22: q, w, a, s, d, scroll_to LABEL, enable_output and              *)
(* disable_output leave every cell's val, expression, status,          *)
(* dependencies and dependents as they were, and a scroll_to that      *)
(* returns -1 also leaves START_ROW and START_COL as they were.        *)
C22_PresentationalFrame ==
    \A line \in PresentLines :
        /\ Run(line).sheet = sheet
        /\ (starts_with(line, ScrollToPrefix) /\ Run(line).ret = -1)
               => (RowAfter(line) = START_ROW /\ ColAfter(line) = START_COL)

(* a scroll_to was refused while the viewport was away from the        *)
(* origin, the output was off and the sheet held formulas and edges    *)
C22_Witness ==
    /\ ret = -1
    /\ START_ROW = 1
    /\ START_COL = 3
    /\ FLAG = 0
    /\ sheet[<<0, 0>>].val = 7
    /\ sheet[<<0, 2>>].dependents # <<>>
    /\ sheet[<<1, 0>>].status = 1

(* ------------------------------------------------------------------ *)
(* The cycle checks and the edge indexes                               *)
(* ------------------------------------------------------------------ *)
(* t is w or is reached from w along the reader sets next *)
Reaches(w, t, next) == t = w \/ t \in Reachable(w, next)

(* check_loop answers reachability for every pair of cells *)
LoopIsReach(sh, next) ==
    \A w \in Cells, t \in Cells : check_loop(w, t, sh) <=> Reaches(w, t, next)

(* C23: check_loop(W, T) is true if and only if T is W or T is reached *)
(* from W along one or more dependencies edges, through chains of      *)
(* readers of any length.                                              *)
C23_CheckLoopIsReachability == LoopIsReach(sheet, ReadersOf(sheet))

(* some cell of the rectangle is w or is reached from w along next *)
ReachesInto(w, rect, next) ==
    \E x \in {w} \cup Reachable(w, next) :
        InRange(x, rect[1][1], rect[1][2], rect[2][1], rect[2][2])

(* check_loop_range answers reachability for every cell and rectangle *)
RangeLoopIsReach(sh, next) ==
    \A w \in Cells, rect \in Rectangles :
        check_loop_range(w, rect[1][1], rect[1][2], rect[2][1], rect[2][2], sh)
            <=> ReachesInto(w, rect, next)

(* C24: check_loop_range(W, r1, c1, r2, c2) is true if and only if W   *)
(* lies inside the rectangle or some cell reached from W along         *)
(* dependencies edges lies inside it, whatever the shape of the AVL    *)
(* trees that hold the edges.                                          *)
C24_RangeLoopIsReachability == RangeLoopIsReach(sheet, ReadersOf(sheet))

(* the cells on the dependents stack of w *)
OnStack(w, sh) == {sh[w].dependents[i] : i \in 1 .. Len(sh[w].dependents)}

(* after is sh with every read edge of w taken away and nothing else   *)
(* touched in the reader sets                                          *)
EdgesCleared(w, sh, after) ==
    /\ after[w].dependents = <<>>
    /\ \A x \in OnStack(w, sh) : w \notin TreeCells(after[x].dependencies)
    /\ \A x \in Cells :
           TreeCells(after[x].dependencies) \ {w} = TreeCells(sh[x].dependencies) \ {w}
    /\ \A x \in Cells \ OnStack(w, sh) :
           TreeCells(after[x].dependencies) = TreeCells(sh[x].dependencies)

(* C25: delete_dependencies(W) leaves W.dependents empty and W absent  *)
(* from X.dependencies for every cell X that was on W.dependents,      *)
(* however many entries the stack held, and changes no other reader    *)
(* set.                                                                *)
C25_DeleteClearsAll ==
    \A w \in Cells : EdgesCleared(w, sheet, delete_dependencies(w, sheet))

(* the cells recorded as read by w: those that hold w in their tree *)
RecordedReads(w, sh) == {x \in Cells : w \in TreeCells(sh[x].dependencies)}

(* C26: after any sequence of commands, for every cell W the cells X   *)
(* with W in X.dependencies are exactly the cells the stored formula   *)
(* of W references: none for a never-assigned cell, an integer or      *)
(* SLEEP(n), the one cell of a reference or SLEEP(Ref), the distinct   *)
(* operand cells of a binary formula, every cell of the rectangle of   *)
(* an aggregate.                                                       *)
C26_EdgesReflectFormulas ==
    \A w \in Cells : RecordedReads(w, sheet) = Refs(sheet[w].expression)

(* ------------------------------------------------------------------ *)
(* The recomputation after an assignment                               *)
(* ------------------------------------------------------------------ *)
(* the cells re-evaluated after an assignment to w, in the order of    *)
(* their re-evaluation: the stack without the writer on its top        *)
Schedule(w, sh) == pop(topological_sort_from_cell(w, sh))

(* the re-evaluations that come before the k-th one *)
Earlier(order, k) == {order[j] : j \in 1 .. k - 1}

(* the sheet when the k-th re-evaluation starts, and when all are done *)
SheetBefore(order, k, sh) == recompute(SubSeq(order, 1, k - 1), R, C, sh).sheet
SheetAfter(order, sh) == recompute(order, R, C, sh).sheet

(* y was re-evaluated before the k-th re-evaluation and already has    *)
(* the val and status the command leaves it with                       *)
Settled(y, order, k, sh) ==
    /\ y \in Earlier(order, k)
    /\ SheetBefore(order, k, sh)[y].val = SheetAfter(order, sh)[y].val
    /\ SheetBefore(order, k, sh)[y].status = SheetAfter(order, sh)[y].status

(* every re-evaluation finds the cells its formula references, and     *)
(* that read w, settled                                                *)
ReadsSettled(w, order, sh) ==
    \A k \in 1 .. Len(order) :
        \A y \in Refs(sh[order[k]].expression) \cap Downstream(w, sh) :
            Settled(y, order, k, sh)

(* assignments to a cell that is read directly and through other      *)
(* cells, and to its readers                                           *)
RecomputeLines ==
    { Line(LabelA1, One), Line(LabelA1, Seven), Line(LabelA1, <<" ">> \o Bin(One, "/", Zero)),
      Line(LabelB1, LabelA1), Line(LabelB1, Two),
      Line(LabelC1, Bin(LabelA1, "+", LabelB1)), Line(LabelC1, LabelA1),
      Line(LabelD1, LabelC1), Line(LabelD1, Fn(SUM, LabelA1, LabelC1)) }

RecomputeInit == Init

Recompute == \E line \in RecomputeLines : Execute(line)

RecomputeNext == Recompute

RecomputeSpec == RecomputeInit /\ [][RecomputeNext]_vars

(* the sheet as the recomputation finds it: the formula of the line    *)
(* installed in the writer, no dependent re-evaluated yet              *)
Installed(line) ==
    install(evaluate_expression(trim(Formula(line)), R, C, sheet, 0, Target(line), 1),
            Target(line), Formula(line))

(* C27: during the recomputation that follows an assignment to W,      *)
(* whenever a cell X is re-evaluated, every cell that the formula of X *)
(* references and that transitively reads W has been re-evaluated      *)
(* before and has its final value for this command.                    *)
C27_ReadersAfterTheirInputs ==
    \A line \in RecomputeLines :
        Run(line).ret \in {0, -2} =>
            ReadsSettled(Target(line), Schedule(Target(line), Installed(line)),
                         Installed(line))

(* the sequence holds every cell of the set S once and nothing else *)
HoldsOnce(order, S) ==
    /\ {order[k] : k \in 1 .. Len(order)} = S
    /\ \A j \in 1 .. Len(order), k \in 1 .. Len(order) : order[j] = order[k] => j = k

(* the stack of w has w on top and, once each, the cells reached from  *)
(* w along next                                                        *)
SortedOnce(w, order, next) ==
    /\ order # <<>>
    /\ Head(order) = w
    /\ HoldsOnce(order, {w} \cup Reachable(w, next))

(* C28: the stack built by topological_sort_from_cell(W) has W on top  *)
(* and holds each cell reached from W along dependencies edges exactly *)
(* once, so no dependent is re-evaluated twice within one command.     *)
C28_StackHoldsEachOnce ==
    \A w \in Cells :
        SortedOnce(w, topological_sort_from_cell(w, sheet), ReadersOf(sheet))

(* the code the k-th re-evaluation of the recomputation returns *)
RecomputeCode(order, k, sh) ==
    evaluate_expression(SheetBefore(order, k, sh)[order[k]].expression, R, C,
                        SheetBefore(order, k, sh), 0, order[k], 0).code

(* no re-evaluation of the recomputation is a cycle or a parse error *)
NeverRejected(order, sh) ==
    \A k \in 1 .. Len(order) : RecomputeCode(order, k, sh) \notin {-4, -1}

(* C29: in every reachable state, re-evaluating the stored expression  *)
(* of a dependent during recomputation never returns -4 or -1, so the  *)
(* catch-all arm of the recompute loop is never taken.                 *)
C29_RecomputeNeverRejected ==
    \A line \in WellFormedLines :
        Run(line).ret \in {0, -2} =>
            NeverRejected(Schedule(Target(line), Installed(line)), Installed(line))

(* expressions of every shape and outcome: values, references, sleeps, *)
(* sums that can overflow, divisions by zero, texts that do not parse  *)
ReadOnlyExprs ==
    { Seven, LabelA1, LabelC1, <<"Z","9">>, <<"1",".","5">>, <<>>,
      Bin(LabelA1, "+", LabelB1), Bin(MaxText, "+", One), Bin(LabelB1, "/", Zero),
      Bin(MinText, "/", MinusOne), Sleep(Two), Sleep(LabelB1),
      Fn(SUM, LabelA1, LabelC1), Fn(MAX, LabelB1, LabelD1), Fn(SUM, LabelC1, LabelA1) }

(* the outcome of a re-evaluation of expr for the cell *)
ReadOnly(expr, cell) == evaluate_expression(expr, R, C, sheet, 0, cell, 0)

(* C30: evaluate_expression in recompute-only mode (call_value = 0)    *)
(* leaves every dependencies set, every dependents stack and every     *)
(* cell's val, expression and status as they were, for every           *)
(* expression and every outcome.                                       *)
C30_RecomputeModeReadOnly ==
    \A expr \in ReadOnlyExprs, cell \in Cells : ReadOnly(expr, cell).sheet = sheet

(* an assignment to A1 made the loop re-evaluate B1, C1 and D1, which  *)
(* hold formulas, edges and the new values                             *)
C30_Witness ==
    /\ ret = 0
    /\ sheet[<<0, 0>>].expression = Seven
    /\ sheet[<<0, 1>>].expression = LabelA1 /\ sheet[<<0, 1>>].val = 7
    /\ sheet[<<0, 2>>].expression = Bin(LabelA1, "+", LabelB1) /\ sheet[<<0, 2>>].val = 14
    /\ sheet[<<0, 3>>].expression = LabelC1 /\ sheet[<<0, 3>>].val = 14
    /\ {0, -1, -2, -4} \subseteq {ReadOnly(expr, <<0, 2>>).code : expr \in ReadOnlyExprs}

(* the outcome of the k-th re-evaluation of the recomputation *)
RecomputeOut(order, k, sh) ==
    evaluate_expression(SheetBefore(order, k, sh)[order[k]].expression, R, C,
                        SheetBefore(order, k, sh), 0, order[k], 0)

(* what the k-th pass of the loop does to the cell it re-evaluates,    *)
(* between the sheet it finds and the sheet it leaves                  *)
ArmContract(x, out, found, left) ==
    /\ out.code = -2 => (left[x].status = 1 /\ left[x].val = found[x].val)
    /\ out.code = 0 => (left[x].status = 0 /\ left[x].val = out.result)
    /\ \A c \in Cells : left[c].expression = found[c].expression

(* every pass of the loop keeps to the contract *)
LoopContract(order, sh) ==
    \A k \in 1 .. Len(order) :
        ArmContract(order[k], RecomputeOut(order, k, sh),
                    SheetBefore(order, k, sh), SheetBefore(order, k + 1, sh))

(* C31: in the recompute loop a dependent whose re-evaluation returns  *)
(* -2 gets status 1 and keeps its val, one whose re-evaluation returns *)
(* 0 gets the new val and status 0, and no expression is changed.      *)
C31_RecomputeArms ==
    \A line \in RecomputeLines :
        Run(line).ret \in {0, -2} =>
            LoopContract(Schedule(Target(line), Installed(line)), Installed(line))

(* an assignment that failed made the loop mark B1 and C1, which keep  *)
(* the values they had                                                 *)
C31_Witness ==
    /\ ret = -2
    /\ sheet[<<0, 0>>].status = 1
    /\ sheet[<<0, 1>>].expression = LabelA1
    /\ sheet[<<0, 1>>].status = 1 /\ sheet[<<0, 1>>].val = 7
    /\ sheet[<<0, 2>>].expression = Bin(LabelA1, "+", LabelB1)
    /\ sheet[<<0, 2>>].status = 1 /\ sheet[<<0, 2>>].val = 14

(* ------------------------------------------------------------------ *)
(* The binary branch                                                   *)
(* ------------------------------------------------------------------ *)
(* the operand is an integer or the label of a cell of the grid *)
GoodOperand(e) ==
    \/ parse_i32(e) # None
    \/ label_to_index(e) # None /\ unwrap(label_to_index(e)) \in Cells

(* binary formulas for A1 in which one operand is A1 or a cell that    *)
(* can read A1 and the other is no cell of the grid                    *)
OrderLines ==
    { Line(LabelA1, Bin(LabelA1, "+", <<"Z","9">>)), Line(LabelA1, Bin(<<"Z","9">>, "+", LabelA1)),
      Line(LabelA1, Bin(LabelB1, "*", <<"A","9">>)), Line(LabelA1, Bin(<<"A","9">>, "*", LabelB1)),
      Line(LabelA1, Bin(LabelA1, "/", <<"a","1">>)), Line(LabelA1, Bin(<<"A","0">>, "/", LabelA1)),
      Line(LabelA1, Bin(LabelA1, "+", LabelB1)), Line(LabelA1, Bin(LabelC1, "+", One)) }

(* the two operands of the formula of a line *)
FirstOperand(line) == Operand1(trim(Formula(line)))
SecondOperand(line) == Operand2(trim(Formula(line)))

(* C32: a binary formula assigned to W returns -1 when either operand  *)
(* is a malformed or out-of-bounds reference, even when the other      *)
(* operand is W or a cell that reads W; it returns -4 only when both   *)
(* operands are well-formed and in bounds.                             *)
C32_ParseBeforeCycle ==
    \A line \in OrderLines :
        /\ (~GoodOperand(FirstOperand(line)) \/ ~GoodOperand(SecondOperand(line)))
               => Run(line).ret = -1
        /\ Run(line).ret = -4
               => (GoodOperand(FirstOperand(line)) /\ GoodOperand(SecondOperand(line)))

OperatorChars == {"+", "-", "*", "/"}

(* the smallest index of t that holds one of the four operators *)
FirstOperatorIndex(t) ==
    CHOOSE i \in 1 .. Len(t) :
        /\ t[i] \in OperatorChars
        /\ \A j \in 1 .. i - 1 : t[j] \notin OperatorChars

(* formulas with one operator, with two, and with a sign *)
SplitExprs ==
    { Bin(One, "+", Two), Bin(LabelA1, "*", LabelB1), Bin(Seven, "/", One),
      Bin(Two, "*", MinusOne), Bin(Seven, "/", MinusOne), Bin(MinusOne, "+", Two),
      Bin(Bin(One, "-", Two), "*", Seven), Bin(Bin(Two, "*", Seven), "+", One),
      <<" ">> \o Bin(LabelA1, "-", One) \o <<" ">>, MinusOne, Sleep(MinusOne) }

(* the split of t: the text before the index, the operator, the text   *)
(* after it                                                            *)
SplitAt(t, i) == <<trim(TakeFirst(t, i - 1)), t[i], trim(DropFirst(t, i))>>

(* the split the binary branch makes of t *)
BinarySplit(t) == <<Operand1(t), unwrap(find_operator(t))[2], Operand2(t)>>

(* the outcome of the formula t for the writer when it is split at     *)
(* the index i                                                         *)
SplitOutcome(t, i) == eval_binary(t, <<i, t[i]>>, R, C, 0, sheet, Writer, 1)

(* C33: a formula that is no integer and no SLEEP form and holds one   *)
(* of + - * / is split at the smallest index at which any of the four  *)
(* occurs, whichever operator it is: operand 1 is the text before it,  *)
(* the operator is that character, operand 2 is the text after it.     *)
C33_SplitAtFirstOperator ==
    \A e \in SplitExprs :
        IsBinary(trim(e)) =>
            /\ evaluate_expression(e, R, C, sheet, 0, Writer, 1)
                   = SplitOutcome(trim(e), FirstOperatorIndex(trim(e)))
            /\ BinarySplit(trim(e)) = SplitAt(trim(e), FirstOperatorIndex(trim(e)))

(* ------------------------------------------------------------------ *)
(* The AVL container on its own                                        *)
(* ------------------------------------------------------------------ *)
(* the largest number of cells the tree is grown to *)
MaxNodes == 5

AvlInit == Init

(* insert(root, cell) *)
Insert ==
    \E cell \in Cells :
        /\ Cardinality(avl.members \cup {cell}) <= MaxNodes
        /\ avl' = [root |-> insert(avl.root, cell),
                   members |-> avl.members \cup {cell},
                   last |-> "insert"]
        /\ UNCHANGED <<sheet, START_ROW, START_COL, FLAG, ret, overflow_checks, codec, walk, grid>>

(* delete_node(root, row, col) *)
Delete ==
    \E cell \in Cells :
        /\ avl' = [root |-> delete_node(avl.root, cell),
                   members |-> avl.members \ {cell},
                   last |-> "delete"]
        /\ UNCHANGED <<sheet, START_ROW, START_COL, FLAG, ret, overflow_checks, codec, walk, grid>>

AvlNext == Insert \/ Delete

AvlSpec == AvlInit /\ [][AvlNext]_vars

(* C34: after any sequence of insert and delete_node calls from the    *)
(* empty tree, find(root, r, c) is Some if and only if the cell was    *)
(* inserted and not deleted since its last insertion, and inserting a  *)
(* cell that is present changes nothing.                               *)
C34_AvlIsASet ==
    /\ \A cell \in Cells : find(avl.root, cell) <=> cell \in avl.members
    /\ \A cell \in avl.members : insert(avl.root, cell) = avl.root

(* a delete_node call left a tree of four cells on three levels, with  *)
(* both subtrees of the root in use                                    *)
C34_Witness ==
    /\ avl.last = "delete"
    /\ Cardinality(avl.members) = 4
    /\ height(avl.root) = 3
    /\ Left(avl.root) # Nil /\ Right(avl.root) # Nil

(* ------------------------------------------------------------------ *)
(* The cells of the sheet                                              *)
(* ------------------------------------------------------------------ *)
(* the cell holds what Cell::new gave it *)
Pristine(cell) == cell.val = 0 /\ cell.expression = <<>> /\ cell.status = 0

(* the cell holds no edge either *)
Fresh(cell) == Pristine(cell) /\ cell.dependencies = Nil /\ cell.dependents = <<>>

(* the step is an assignment to the cell c that returned 0 or -2 *)
AssignedTo(c) ==
    /\ ret' \in {0, -2}
    /\ \E line \in TargetLines : LineTarget[line] = c /\ Returned(Run(line))

(* C35: SheetData::new gives rows x cols cells with val 0, an empty    *)
(* expression, status 0, no dependencies and no dependents, and a cell *)
(* that was never the target of an assignment that returned 0 or -2    *)
(* keeps val 0, the empty expression and status 0 through any sequence *)
(* of commands.                                                        *)
C35_CellsStartDefault ==
    /\ DOMAIN sheet = (0 .. R - 1) \X (0 .. C - 1)
    /\ \A c \in Cells : Fresh(sheet[c])
    /\ [][\A c \in Cells :
              (Pristine(sheet[c]) /\ ~Pristine(sheet'[c])) => AssignedTo(c)]_vars

(* an assignment to A1 was refused after other cells were assigned and *)
(* recomputed, and a cell of the first row is still as it was made     *)
C35_Witness ==
    /\ ret = -4
    /\ sheet[<<0, 0>>].expression # <<>>
    /\ sheet[<<0, 3>>].expression = LabelA1 /\ sheet[<<0, 3>>].val = 1
    /\ Pristine(sheet[<<0, 1>>])
    /\ sheet[<<0, 1>>].dependencies # Nil

(* the cells whose stored formula references x *)
FormulaReaders(x, sh) == {w \in Cells : x \in Refs(sh[w].expression)}

(* the cells an assignment to x re-evaluates *)
Reevaluated(x, sh) == {Schedule(x, sh)[k] : k \in 1 .. Len(Schedule(x, sh))}

(* C36: after any sequence of commands, for every cell W and every     *)
(* cell X the stored expression of W references, W is in               *)
(* X.dependencies, so an assignment to X re-evaluates every cell whose *)
(* formula reads X.                                                    *)
C36_NoMissingEdge ==
    \A x \in Cells :
        /\ FormulaReaders(x, sheet) \subseteq TreeCells(sheet[x].dependencies)
        /\ FormulaReaders(x, sheet) \ {x} \subseteq Reevaluated(x, sheet)

(* B1 is read by a binary formula and C1 by that formula and by an     *)
(* aggregate that replaced another formula of the same cell            *)
C36_Witness ==
    /\ sheet[<<0, 0>>].expression = Fn(SUM, LabelB1, LabelC1)
    /\ sheet[<<0, 1>>].expression = LabelC1
    /\ sheet[<<0, 3>>].expression = LabelA1
    /\ Len(sheet[<<0, 0>>].dependents) = 2
    /\ TreeCells(sheet[<<0, 2>>].dependencies) = {<<0, 0>>, <<0, 1>>}

(* ------------------------------------------------------------------ *)
(* The four loops followed one pass at a time (sheet.rs 88-104,         *)
(* 132-196, 271-307, 374-428).  A frame is one activation of dfs,       *)
(* dfs_range or topological_sort_util: its cell, whether its entry      *)
(* tests have run, its local stack of links, and the node whose         *)
(* recursive call is under way.  The top frame is the last one.         *)
(* ------------------------------------------------------------------ *)
Frame(cell) == [cell |-> cell, entered |-> FALSE, stack |-> <<>>, pending |-> Nil]

Frames(w) == w.frames
TopFrame(w) == w.frames[Len(w.frames)]
Callers(w) == SubSeq(w.frames, 1, Len(w.frames) - 1)

(* the top frame replaced by f *)
Continue(w, f) == [w EXCEPT !.frames = Callers(w) \o <<f>>]

(* the top frame replaced by f, which calls the function again on cell *)
Call(w, f, cell) == [w EXCEPT !.frames = Callers(w) \o <<f, Frame(cell)>>]

(* `return true`: every caller returns true in its turn *)
Found(w) == [w EXCEPT !.frames = <<>>, !.found = TRUE, !.done = TRUE]

(* the top activation returns (false, for the two searches) to its caller *)
Return(w) == [w EXCEPT !.frames = Callers(w), !.done = (Callers(w) = <<>>)]

Mark(w, cell) == [w EXCEPT !.visited = @ \cup {cell}]

(* `stack.push(node.left); stack.push(node.right)` after the call returned false *)
Children(f) == [f EXCEPT !.stack = @ \o <<Left(f.pending), Right(f.pending)>>, !.pending = Nil]

(* one pass of dfs (sheet.rs 132-196), w.target[1] the cell looked for *)
dfs_pass(w, sh) ==
    LET f == TopFrame(w) IN
    IF ~f.entered
    THEN IF f.cell \in w.visited THEN Return(w)
         ELSE IF f.cell = w.target[1] THEN Found(Mark(w, f.cell))
         ELSE IF find(sh[f.cell].dependencies, w.target[1]) THEN Found(Mark(w, f.cell))
         ELSE Continue(Mark(w, f.cell),
                       [f EXCEPT !.entered = TRUE, !.stack = <<sh[f.cell].dependencies>>])
    ELSE IF f.pending # Nil THEN Continue(w, Children(f))
    ELSE IF f.stack = <<>> THEN Return(w)
    ELSE IF Top(f.stack) = Nil THEN Return(w)
    ELSE IF NodeCell(Top(f.stack)) = w.target[1] THEN Found(w)
    ELSE IF NodeCell(Top(f.stack)) \notin w.visited
    THEN Call(Mark(w, NodeCell(Top(f.stack))),
              [f EXCEPT !.stack = Pop(@), !.pending = Top(f.stack)],
              NodeCell(Top(f.stack)))
    ELSE Continue(w, Children([f EXCEPT !.stack = Pop(@), !.pending = Top(f.stack)]))

(* one pass of dfs_range (sheet.rs 271-307), w.target the rectangle *)
dfs_range_pass(w, sh) ==
    LET f == TopFrame(w) IN
    IF ~f.entered
    THEN IF InRange(f.cell, w.target[1][1], w.target[1][2], w.target[2][1], w.target[2][2])
         THEN Found(w)
         ELSE IF f.cell \notin w.visited
         THEN Continue(Mark(w, f.cell),
                       [f EXCEPT !.entered = TRUE, !.stack = <<sh[f.cell].dependencies>>])
         ELSE Return(w)
    ELSE IF f.pending # Nil THEN Continue(w, Children(f))
    ELSE IF f.stack = <<>> THEN Return(w)
    ELSE IF Top(f.stack) = Nil THEN Return(w)
    ELSE Call(w, [f EXCEPT !.stack = Pop(@), !.pending = Top(f.stack)],
              NodeCell(Top(f.stack)))

(* one pass of topological_sort_util (sheet.rs 374-428); the frame's    *)
(* stack is dep_stack, pairs <<link, processed>>                        *)
topological_sort_pass(w, sh) ==
    LET f == TopFrame(w) IN
    IF ~f.entered
    THEN IF f.cell \in w.visited THEN Return(w)
         ELSE Continue(Mark(w, f.cell),
                       [f EXCEPT !.entered = TRUE,
                                 !.stack = <<(<<sh[f.cell].dependencies, FALSE>>)>>])
    ELSE IF f.pending # Nil
    THEN Continue(w, [f EXCEPT !.pending = Nil,
                               !.stack = IF Left(f.pending) # Nil
                                         THEN @ \o <<(<<Left(f.pending), FALSE>>)>> ELSE @])
    ELSE IF f.stack = <<>> THEN Return([w EXCEPT !.result = push(@, f.cell)])
    ELSE IF Top(f.stack)[2]
    THEN IF Pop(f.stack) # <<>> /\ Top(Pop(f.stack))[1] # Nil
         THEN Continue([w EXCEPT !.result = push(@, NodeCell(Top(Pop(f.stack))[1]))],
                       [f EXCEPT !.stack = Pop(@)])
         ELSE Continue(w, [f EXCEPT !.stack = Pop(@)])
    ELSE IF Top(f.stack)[1] = Nil THEN Continue(w, [f EXCEPT !.stack = Pop(@)])
    ELSE Call(w,
              [f EXCEPT !.pending = Top(f.stack)[1],
                        !.stack = Pop(@) \o <<(<<Top(f.stack)[1], TRUE>>)>>
                                  \o (IF Right(Top(f.stack)[1]) # Nil
                                      THEN <<(<<Right(Top(f.stack)[1]), FALSE>>)>> ELSE <<>>)],
              NodeCell(Top(f.stack)[1]))

(* variant: the list of dependents is looked at and left in the cell *)
delete_dependencies_pass_keeping(w, sh) ==
    IF w.result = <<>> THEN [w EXCEPT !.done = TRUE]
    ELSE w

(* one pass of delete_dependencies (sheet.rs 88-104), w.result the       *)
(* cell's list of dependents: take() leaves None behind, so the         *)
(* pass after the first one breaks                                      *)
delete_dependencies_pass(w, sh) ==
    IF w.result = <<>> THEN [w EXCEPT !.done = TRUE]
    ELSE [w EXCEPT !.result = <<>>]

(* the calls as they begin *)
Begin(fn, start, target, result) ==
    [fn |-> fn, start |-> start, target |-> target, frames |-> <<Frame(start)>>,
     visited |-> {}, found |-> FALSE, result |-> result, done |-> FALSE]

(* check_loop (sheet.rs 222-244) answers two cases before it calls dfs *)
BeginCheckLoop(start, target, sh) ==
    IF start = target \/ find(sh[start].dependencies, target)
    THEN Found(Begin("check_loop", start, <<target>>, <<>>))
    ELSE Begin("check_loop", start, <<target>>, <<>>)

Pass(w, sh) ==
    IF w.fn = "check_loop" THEN dfs_pass(w, sh)
    ELSE IF w.fn = "check_loop_range" THEN dfs_range_pass(w, sh)
    ELSE IF w.fn = "topological_sort_from_cell" THEN topological_sort_pass(w, sh)
    ELSE delete_dependencies_pass(w, sh)

(* delete_dependencies keeps no frame: it loops over the list of the cell *)
BeginDelete(cell1, sh) ==
    [Begin("delete_dependencies", cell1, <<>>, sh[cell1].dependents) EXCEPT !.frames = <<>>]

(* the rectangle an aggregate formula names, by its corners *)
RectOf(expr) ==
    <<CellOf(unwrap(func_regex(trim(expr)))[2], unwrap(func_regex(trim(expr)))[3]),
      CellOf(unwrap(func_regex(trim(expr)))[4], unwrap(func_regex(trim(expr)))[5])>>

(* the traversals execute_command starts for an assignment: the cycle   *)
(* check of each operand or of the rectangle, the removal of the old    *)
(* edges and the sort from the writer                                   *)
Calls(line, sh) ==
    {BeginDelete(Target(line), sh),
     Begin("topological_sort_from_cell", Target(line), <<>>, <<>>)}
    \cup (IF func_regex(trim(Formula(line))) # None
          THEN {Begin("check_loop_range", Target(line), RectOf(Formula(line)), <<>>)}
          ELSE {BeginCheckLoop(Target(line), x, sh) : x \in Refs(Formula(line))})

(* assignments that close a chain of reads into a ring, and others      *)
WalkLines ==
    { Line(LabelC1, LabelA1), Line(LabelB1, LabelC1), Line(LabelA1, LabelB1),
      Line(LabelB1, LabelA1), Line(LabelA1, Bin(LabelB1, "+", LabelC1)),
      Line(LabelD1, Fn(SUM, LabelA1, LabelC1)), Line(LabelA1, Fn(SUM, LabelB1, LabelD1)),
      Line(LabelA1, One) }

WalkInit == Init

WalkCommand == walk.fn = "idle" /\ \E line \in WalkLines : Execute(line)

Start ==
    /\ walk.fn = "idle"
    /\ ret \notin {1, PANIC}
    /\ \E line \in WalkLines : walk' \in Calls(line, sheet)
    /\ UNCHANGED <<sheet, START_ROW, START_COL, FLAG, ret, overflow_checks, codec, avl, grid>>

Step ==
    /\ walk.fn # "idle"
    /\ ~walk.done
    /\ walk' = Pass(walk, sheet)
    /\ UNCHANGED <<sheet, START_ROW, START_COL, FLAG, ret, overflow_checks, codec, avl, grid>>

Finish ==
    /\ walk.done
    /\ walk' = Idle
    /\ UNCHANGED <<sheet, START_ROW, START_COL, FLAG, ret, overflow_checks, codec, avl, grid>>

WalkNext == WalkCommand \/ Start \/ Step \/ Finish

(* a loop under way goes on to its next pass *)
WalkSpec == WalkInit /\ [][WalkNext]_vars /\ WF_vars(Step)

(* the answer of the function the traversal follows *)
Answer(w, sh) ==
    IF w.fn = "check_loop"
    THEN [found |-> check_loop(w.start, w.target[1], sh), result |-> <<>>]
    ELSE IF w.fn = "check_loop_range"
    THEN [found |-> check_loop_range(w.start, w.target[1][1], w.target[1][2],
                                     w.target[2][1], w.target[2][2], sh),
          result |-> <<>>]
    ELSE IF w.fn = "topological_sort_from_cell"
    THEN [found |-> FALSE, result |-> topological_sort_from_cell(w.start, sh)]
    ELSE [found |-> FALSE, result |-> <<>>]

WalkAgrees ==
    walk.done => [found |-> walk.found, result |-> walk.result] = Answer(walk, sheet)

(* C37: every traversal execute_command starts (the cycle checks, the   *)
(* removal of the old edges, the sort from the writer) comes to its     *)
(* end, with the answer the function gives, in every reachable state,   *)
(* those whose recorded edges form a ring included.                     *)
C37_LoopsFinish == [](WalkAgrees) /\ ((walk.fn # "idle") ~> walk.done)

(* a sort that went round a ring of recorded edges and came to its end *)
C37_Witness ==
    /\ Cyclic(ReadersOf(sheet))
    /\ walk.done
    /\ walk.fn = "topological_sort_from_cell"
    /\ walk.start \in Reachable(walk.start, ReadersOf(sheet))

(* ------------------------------------------------------------------ *)
(* The dependents stack of a cell against its stored expression         *)
(* (sheet.rs 1016-1033, 88-104, stack.rs 54-58).                        *)
(* ------------------------------------------------------------------ *)
NoRepeat(stack) == \A i, j \in 1 .. Len(stack) : stack[i] = stack[j] => i = j

StackFitsFormula(w, sh) ==
    /\ NoRepeat(sh[w].dependents)
    /\ Len(sh[w].dependents) <= Cardinality(Refs(sh[w].expression))

(* C38: after any sequence of commands, the dependents stack of every   *)
(* cell holds no cell twice and is no longer than the number of         *)
(* distinct cells its stored expression references.                     *)
C38_StackFitsFormula == \A w \in Cells : StackFitsFormula(w, sheet)

(* ------------------------------------------------------------------ *)
(* The viewport origin on grids of every size (sheet.rs 473-488,        *)
(* 1488-1516; main, sheet.rs 670-701, sets R and C once).               *)
(* ------------------------------------------------------------------ *)
(* the largest number of rows and of columns tried *)
MaxGrid == 31

(* grids as long as wide, and grids long where they are narrow *)
Grids ==
    {g \in [rows : 1 .. MaxGrid, cols : 1 .. MaxGrid] :
        g.cols = g.rows \/ g.cols = MaxGrid + 1 - g.rows}

(* w, a, s, d and scroll_to lines: cells near and far, a row of 0 *)
OriginLines ==
    { <<"w">>, <<"a">>, <<"s">>, <<"d">>,
      ScrollToPrefix \o LabelA1, ScrollToPrefix \o <<"B","2">>,
      ScrollToPrefix \o <<"K","1","1">>, ScrollToPrefix \o <<"U","2","1">>,
      ScrollToPrefix \o <<"A","E","3","1">>, ScrollToPrefix \o <<"A","F","3","2">>,
      ScrollToPrefix \o <<"A","3","2">>, ScrollToPrefix \o <<"A","F","1">>,
      ScrollToPrefix \o <<"A","0">> }

ScrollInit ==
    /\ sheet = NewSheet
    /\ START_ROW = 0
    /\ START_COL = 0
    /\ FLAG = 1
    /\ ret = 0
    /\ overflow_checks = FALSE
    /\ codec = NoLabel
    /\ avl = NoTree
    /\ walk = Idle
    /\ grid \in Grids

Scroll ==
    \E line \in OriginLines :
        Returned(execute_command(line, grid.rows, grid.cols, sheet,
                                 START_ROW, START_COL, FLAG))

ScrollNext == Scroll

ScrollSpec == ScrollInit /\ [][ScrollNext]_vars

(* C39: on a grid of at least one row and one column, after any         *)
(* sequence of w, a, s, d and scroll_to commands the viewport origin    *)
(* is a cell of the grid: START_ROW < R and START_COL < C.              *)
C39_OriginInsideGrid == START_ROW < grid.rows /\ START_COL < grid.cols

(* on the largest grid, s was given until the last block and d once *)
C39_Witness ==
    /\ grid.rows = MaxGrid
    /\ START_ROW = grid.rows - Block
    /\ START_COL = Block
    /\ ret = 0

====
